---- MODULE Spec2Model ----
(***************************************************************************)
(* A model of the Solana geyser PostgreSQL indexer plugin: the selectors,  *)
(* the producer API (GeyserPluginPostgres / ParallelClient), the bounded   *)
(* work queue, the worker pool and the account merge rule of the Sink.     *)
(***************************************************************************)
EXTENDS Integers, Sequences, FiniteSets, Bags, TLC

VARIABLES
    config,                   \* GeyserPluginPostgres.config: the selector sections of the config file
    client,                   \* GeyserPluginPostgres.client: Option, the connection settings its threads cloned
    accounts_selector,        \* GeyserPluginPostgres.accounts_selector: Option<AccountsSelector>
    transaction_selector,     \* GeyserPluginPostgres.transaction_selector: Option<TransactionSelector>
    batch_starting_slot,      \* GeyserPluginPostgres.batch_starting_slot: Option<u64>
    sel_query,                \* the last selector call and what it returned
    account,                  \* Sink: table account, the set of its rows (primary key pubkey)
    account_audit,            \* Sink: table account_audit, a bag of rows
    slot,                     \* Sink: table slot, the set of its rows (primary key slot)
    block,                    \* Sink: table block, the set of its rows (primary key slot)
    transaction,              \* Sink: table transaction, the set of its rows
    token_manager,            \* Sink: table token_manager, the set of its rows (primary key id)
    store_account_historical_data, \* config: the audit insert statement is prepared
    panic_on_db_errors,       \* config.panic_on_db_errors
    queue,                    \* the bounded channel behind ParallelClient.sender
    exit_worker,              \* ParallelClient.exit_worker
    is_startup_done,          \* ParallelClient.is_startup_done
    startup_done_count,       \* ParallelClient.startup_done_count
    initialized_worker_count, \* ParallelClient.initialized_worker_count
    transaction_write_version, \* ParallelClient.transaction_write_version
    workers,                  \* ParallelClient.workers: the join handles not yet joined
    worker,                   \* the worker threads: position, item in hand, SimplePostgresClient buffers
    host,                     \* the host thread: position in the plugin call it is making
    aborted,                  \* abort() has ended the process
    sent,                     \* history: the ids of the work items the channel has accepted
    account_calls,            \* history: the update_account calls the host has made
    trace,                    \* history: the slot and block calls, the receives and the failures of the workers
    applied,                  \* history: the records a successful account statement has carried
    sink_op                   \* history of SpecSink: the last SinkUpsertAccount and its outcome

selVars == <<config, client, accounts_selector, transaction_selector>>
sinkVars == <<account, account_audit, token_manager, store_account_historical_data, applied,
              sink_op>>
pipeVars == <<batch_starting_slot, slot, block, transaction, panic_on_db_errors, queue,
              exit_worker, is_startup_done, startup_done_count, initialized_worker_count,
              transaction_write_version, workers, worker, host, aborted, sent, account_calls, trace>>

vars == <<selVars, sel_query, sinkVars, pipeVars>>

\* Option<T> is the set of at most one value: None is {}, Some(x) is {x}.
None == {}
Some(x) == {x}
IsSome(o) == o # {}
Unwrap(o) == CHOOSE x \in o : TRUE

Range(s) == {s[i] : i \in 1..Len(s)}

(***************************************************************************)
(* Strings of the configuration.  A string is the sequence of its          *)
(* characters; a character of the base58 alphabet                          *)
(* 123456789ABCDEFGHJKLMNPQRSTUVWXYZabcdefghijkmnopqrstuvwxyz is its index *)
(* 0..57 in the alphabet, and the characters '*', 'l' and '_', which are   *)
(* not in the alphabet, are 58, 59 and 60.                                 *)
(***************************************************************************)
Star == <<58>>                                    \* "*"
All == <<33, 59, 59>>                             \* "all"
AllVotes == <<33, 59, 59, 60, 53, 46, 51, 37, 50>> \* "all_votes"

\* Number of bytes of a solana_sdk Pubkey, the type of a mentioned address.
PUBKEY_BYTES == 32

Repeat(x, n) == [i \in 1..n |-> x]

\* "1...12", "1...13", "1...14": the base58 text of the 32-byte keys 0..01, 0..02, 0..03
Key1 == Repeat(0, PUBKEY_BYTES - 1) \o <<1>>
Key2 == Repeat(0, PUBKEY_BYTES - 1) \o <<2>>
Key3 == Repeat(0, PUBKEY_BYTES - 1) \o <<3>>
\* "2" and "1z": valid base58 of one and two bytes, no Pubkey
KeyShort == <<1>>
KeyTwo == <<0, 57>>

Bs58Valid(key) == \A i \in 1..Len(key) : key[i] < 58

\* One step of bs58's decode_into: the little-endian number times 58 plus the digit.
RECURSIVE MulAdd(_, _)
MulAdd(le, val) ==
    IF le = <<>>
    THEN IF val > 0 THEN <<val % 256>> ELSE <<>>
    ELSE LET v == val + Head(le) * 58
         IN  <<v % 256>> \o MulAdd(Tail(le), v \div 256)

RECURSIVE DecodeDigits(_, _)
DecodeDigits(key, le) ==
    IF key = <<>> THEN le ELSE DecodeDigits(Tail(key), MulAdd(le, Head(key)))

RECURSIVE LeadingOnes(_)
LeadingOnes(key) ==
    IF key # <<>> /\ Head(key) = 0 THEN 1 + LeadingOnes(Tail(key)) ELSE 0

Reverse(s) == [i \in 1..Len(s) |-> s[Len(s) + 1 - i]]

\* bs58::decode(key).into_vec().unwrap(), for a key of the alphabet: one zero
\* byte per leading '1', then the big-endian bytes of the number.
Bs58Decode(key) == Reverse(DecodeDigits(key, <<>>) \o Repeat(0, LeadingOnes(key)))

\* The byte strings the host passes as pubkey and owner, and the Pubkeys a
\* transaction mentions.
Pubkey1 == Bs58Decode(Key1)
Pubkey2 == Bs58Decode(Key2)
Pubkey3 == Bs58Decode(Key3)
ByteStrings == {Pubkey1, Pubkey2, Pubkey3, Bs58Decode(KeyShort)}
Pubkeys == {Pubkey1, Pubkey2, Pubkey3}

(***************************************************************************)
(* AccountsSelector                                                        *)
(***************************************************************************)
OptList(o) == IF IsSome(o) THEN Unwrap(o) ELSE <<>>

\* AccountsSelector::new panics (unwrap) on a key that is not base58.
AccountsConfigValid(cfg) ==
    \/ Star \in Range(OptList(cfg.accounts))
    \/ \A k \in Range(OptList(cfg.accounts)) \cup Range(OptList(cfg.owners)) : Bs58Valid(k)

AccountsSelectorNew(cfg) ==
    LET select_all_accounts == \E i \in 1..Len(OptList(cfg.accounts)) :
                                   OptList(cfg.accounts)[i] = Star
    IN  IF select_all_accounts
        THEN [accounts |-> {}, owners |-> {}, select_all_accounts |-> TRUE]
        ELSE [accounts |-> {Bs58Decode(k) : k \in Range(OptList(cfg.accounts))},
              owners |-> {Bs58Decode(k) : k \in Range(OptList(cfg.owners))},
              select_all_accounts |-> FALSE]

is_account_selected_And(self, acct, owner) ==
    self.select_all_accounts \/ (acct \in self.accounts /\ owner \in self.owners)

is_account_selected(self, acct, owner) ==
    self.select_all_accounts \/ acct \in self.accounts \/ owner \in self.owners

accounts_is_enabled_NoOwners(self) ==
    self.select_all_accounts \/ self.accounts # {}

accounts_is_enabled(self) ==
    self.select_all_accounts \/ self.accounts # {} \/ self.owners # {}

(***************************************************************************)
(* TransactionSelector                                                     *)
(***************************************************************************)
TransactionConfigValid(cfg) ==
    \/ \E k \in Range(cfg.mentions) : k \in {Star, All, AllVotes}
    \/ \A k \in Range(cfg.mentions) : Bs58Valid(k)

TransactionSelectorNew_KeepsAddresses(cfg) ==
    LET select_all_transactions == \E i \in 1..Len(cfg.mentions) :
                                       cfg.mentions[i] = Star \/ cfg.mentions[i] = All
        select_all_vote_transactions == \E i \in 1..Len(cfg.mentions) :
                                            cfg.mentions[i] = AllVotes
    IN  IF select_all_transactions
        THEN [mentioned_addresses |-> {}, select_all_transactions |-> TRUE,
              select_all_vote_transactions |-> TRUE]
        ELSE [mentioned_addresses |-> {Bs58Decode(k) : k \in Range(cfg.mentions) \ {AllVotes}},
              select_all_transactions |-> FALSE,
              select_all_vote_transactions |-> select_all_vote_transactions]

TransactionSelectorNew(cfg) ==
    LET select_all_transactions == \E i \in 1..Len(cfg.mentions) :
                                       cfg.mentions[i] = Star \/ cfg.mentions[i] = All
        select_all_vote_transactions == \E i \in 1..Len(cfg.mentions) :
                                            cfg.mentions[i] = AllVotes
    IN  IF select_all_transactions
        THEN [mentioned_addresses |-> {}, select_all_transactions |-> TRUE,
              select_all_vote_transactions |-> TRUE]
        ELSE IF select_all_vote_transactions
        THEN [mentioned_addresses |-> {}, select_all_transactions |-> FALSE,
              select_all_vote_transactions |-> TRUE]
        ELSE [mentioned_addresses |-> {Bs58Decode(k) : k \in Range(cfg.mentions)},
              select_all_transactions |-> FALSE,
              select_all_vote_transactions |-> FALSE]

transaction_is_enabled(self) ==
    \/ self.select_all_transactions
    \/ self.select_all_vote_transactions
    \/ self.mentioned_addresses # {}

is_transaction_selected_VotesAlways(self, is_vote, mentioned) ==
    IF ~transaction_is_enabled(self) THEN FALSE
    ELSE IF self.select_all_transactions \/ self.select_all_vote_transactions THEN TRUE
    ELSE \E a \in mentioned : a \in self.mentioned_addresses

\* mentioned: the account keys of the transaction's message, each a Pubkey
is_transaction_selected(self, is_vote, mentioned) ==
    IF ~transaction_is_enabled(self) THEN FALSE
    ELSE IF self.select_all_transactions \/ (self.select_all_vote_transactions /\ is_vote) THEN TRUE
    ELSE \E a \in mentioned : a \in self.mentioned_addresses

\* GeyserPlugin::account_data_notifications_enabled / transaction_notifications_enabled
account_data_notifications_enabled ==
    IF IsSome(accounts_selector) THEN accounts_is_enabled(Unwrap(accounts_selector)) ELSE FALSE

transaction_notifications_enabled ==
    IF IsSome(transaction_selector) THEN transaction_is_enabled(Unwrap(transaction_selector)) ELSE FALSE

(***************************************************************************)
(* The selectors as a state machine: on_load builds them from the config,  *)
(* and the host queries them.                                              *)
(***************************************************************************)
\* Longest accounts / owners / mentions list of a drawn config.
MaxKeys == 2

SeqsUpTo(S, n) == UNION {[1..k -> S] : k \in 0..n}

AccountKeys == {Star, Key1, Key2, KeyShort}
OwnerKeys == {Key1, Key2}
MentionKeys == {Star, All, AllVotes, Key1, KeyShort}

AccountsSelectorConfigs ==
    {c \in [accounts : {None} \cup {Some(l) : l \in SeqsUpTo(AccountKeys, MaxKeys)},
            owners : {None} \cup {Some(l) : l \in SeqsUpTo(OwnerKeys, MaxKeys)}] :
        AccountsConfigValid(c)}

TransactionSelectorConfigs ==
    {c \in [mentions : SeqsUpTo(MentionKeys, MaxKeys)] : TransactionConfigValid(c)}

\* The connection settings of a config file that names a connection string
\* and nothing else: each field is the Option the file gives it.
ConnectionByStr ==
    [connection_str |-> Some("connection_str"), host |-> None, user |-> None,
     use_ssl |-> None, server_ca |-> None, client_cert |-> None, client_key |-> None]

\* on_load, returned Ok: the client is stored and the selectors are built
\* from the sections the config file has.
OnLoadSelectors(cfg) ==
    /\ config = cfg
    /\ client = Some(ConnectionByStr)
    /\ accounts_selector =
           IF IsSome(cfg.accounts_selector)
           THEN Some(AccountsSelectorNew(Unwrap(cfg.accounts_selector))) ELSE None
    /\ transaction_selector =
           IF IsSome(cfg.transaction_selector)
           THEN Some(TransactionSelectorNew(Unwrap(cfg.transaction_selector))) ELSE None

\* The selector sections of the drawn config files: one section with every
\* drawn content and the other absent, or both present.
SelectorSections ==
    {cfg \in [accounts_selector : {None} \cup {Some(c) : c \in AccountsSelectorConfigs},
              transaction_selector : {None} \cup {Some(c) : c \in TransactionSelectorConfigs}] :
        \/ cfg.accounts_selector = None
        \/ cfg.transaction_selector = None
        \/ /\ cfg.accounts_selector = Some([accounts |-> None, owners |-> Some(<<Key1>>)])
           /\ cfg.transaction_selector = Some([mentions |-> <<AllVotes>>])}

\* Number of worker connections (config.threads) of the drawn runs.
NumWorkers == 2
Workers == 1..NumWorkers

NoQuery == [kind |-> "none"]

\* A worker thread as Builder::spawn starts it, and the host before its first call.
WorkerNew ==
    [pc |-> "connecting", item |-> None, pending_account_updates |-> <<>>,
     slots_at_startup |-> {}, index_token_owner |-> FALSE, index_token_mint |-> FALSE,
     pending_token_owner_index |-> <<>>, pending_token_mint_index |-> <<>>,
     is_startup_done |-> FALSE, result |-> "none"]

HostNew ==
    [pc |-> "idle", item |-> None, calls |-> 0, last |-> [op |-> "none"],
     deq |-> 0, done_read |-> 0, eos |-> "none", eos_ids |-> {}, unload_ids |-> {}]

\* ParallelClient::new: an empty channel, the flags and counters at rest,
\* one thread spawned for each of config.threads.
ParallelClientNew ==
    /\ queue = <<>>
    /\ exit_worker = FALSE
    /\ is_startup_done = FALSE
    /\ startup_done_count = 0
    /\ initialized_worker_count = 0
    /\ transaction_write_version = 0
    /\ workers = [i \in 1..NumWorkers |-> i]
    /\ worker = [w \in Workers |-> WorkerNew]

\* No slot or block call made, no item received, no failure in a worker.
NoTrace ==
    [slot_calls |-> {}, block_calls |-> {}, received |-> EmptyBag, dequeued |-> <<>>,
     failed |-> {}]

\* The histories of a run that has not started.
NoHistory ==
    /\ host = HostNew
    /\ aborted = FALSE
    /\ sent = {}
    /\ account_calls = {}
    /\ trace = NoTrace

\* The pipeline of the specifications that do not run it: no startup floor,
\* empty tables, the client as constructed.
PipelineIdle ==
    /\ batch_starting_slot = None
    /\ slot = {}
    /\ block = {}
    /\ transaction = {}
    /\ panic_on_db_errors = FALSE
    /\ ParallelClientNew
    /\ NoHistory

NoSinkOp == [n |-> 0, kind |-> "none"]

SinkIdle ==
    /\ account = {}
    /\ account_audit = EmptyBag
    /\ token_manager = {}
    /\ store_account_historical_data = FALSE
    /\ applied = {}
    /\ sink_op = NoSinkOp

InitSelector ==
    /\ \E cfg \in SelectorSections : OnLoadSelectors(cfg)
    /\ sel_query = NoQuery
    /\ SinkIdle
    /\ PipelineIdle

QueryAccountSelected(pubkey, owner) ==
    /\ IsSome(accounts_selector)
    /\ sel_query' = [kind |-> "account", pubkey |-> pubkey, owner |-> owner,
                     result |-> is_account_selected(Unwrap(accounts_selector), pubkey, owner)]
    /\ UNCHANGED <<selVars, sinkVars, pipeVars>>

QueryTransactionSelected(is_vote, mentioned) ==
    /\ IsSome(transaction_selector)
    /\ sel_query' = [kind |-> "transaction", is_vote |-> is_vote, mentioned |-> mentioned,
                     result |-> is_transaction_selected(Unwrap(transaction_selector), is_vote, mentioned)]
    /\ UNCHANGED <<selVars, sinkVars, pipeVars>>

QueryEnabled ==
    /\ sel_query' = [kind |-> "enabled",
                     accounts |-> account_data_notifications_enabled,
                     transactions |-> transaction_notifications_enabled]
    /\ UNCHANGED <<selVars, sinkVars, pipeVars>>

NextSelector ==
    \/ \E pubkey \in ByteStrings, owner \in ByteStrings : QueryAccountSelected(pubkey, owner)
    \/ \E is_vote \in BOOLEAN, mentioned \in SUBSET Pubkeys : QueryTransactionSelected(is_vote, mentioned)
    \/ QueryEnabled

SpecSelector == InitSelector /\ [][NextSelector]_vars

(***************************************************************************)
(* The Sink: table account with primary key pubkey, table account_audit,   *)
(* and the statements SimplePostgresClient prepares.  A table is the set   *)
(* of its rows.  A row carries pubkey, owner, lamports, slot and           *)
(* write_version; executable, rent_epoch, data and txn_signature are       *)
(* assigned by the same SET clause as lamports and are not kept apart;     *)
(* updated_on is the clock.  The token index statements belong to          *)
(* index_token_owner / index_token_mint, which are off.                    *)
(***************************************************************************)
RowOf(table, pubkey) == {x \in table : x.pubkey = pubkey}

MergeCondition_OrEqual(acct, excluded) ==
    \/ acct.slot < excluded.slot
    \/ (acct.slot = excluded.slot /\ acct.write_version <= excluded.write_version)

MergeCondition_AnyNewer(acct, excluded) ==
    \/ acct.slot < excluded.slot
    \/ acct.write_version < excluded.write_version

\* WHERE acct.slot < excluded.slot OR
\*       (acct.slot = excluded.slot AND acct.write_version < excluded.write_version)
MergeCondition(acct, excluded) ==
    \/ acct.slot < excluded.slot
    \/ (acct.slot = excluded.slot /\ acct.write_version < excluded.write_version)

\* The trigger account_update_trigger: AFTER UPDATE the OLD row goes to
\* account_audit.  It is installed with the audit table.
AuditTrigger(audit, old) ==
    IF store_account_historical_data THEN audit (+) SetToBag({old}) ELSE audit

UpdateAccountStmt_Accumulate(table, audit, r) ==
    LET existing == RowOf(table, r.pubkey)
    IN  IF existing = {}
        THEN [account |-> table \cup {r}, audit |-> audit, rows |-> 1]
        ELSE IF MergeCondition(Unwrap(existing), r) \/ Unwrap(existing).write_version = r.write_version
        THEN [account |-> (table \ existing) \cup
                              {[r EXCEPT !.lamports = Unwrap(existing).lamports + r.lamports]},
              audit |-> AuditTrigger(audit, Unwrap(existing)), rows |-> 1]
        ELSE [account |-> table, audit |-> audit, rows |-> 0]

\* update_account_stmt, one statement: INSERT ... ON CONFLICT (pubkey) DO UPDATE SET
\* ... WHERE MergeCondition.  rows is the number of rows inserted or updated.
UpdateAccountStmt(table, audit, r) ==
    LET existing == RowOf(table, r.pubkey)
    IN  IF existing = {}
        THEN [account |-> table \cup {r}, audit |-> audit, rows |-> 1]
        ELSE IF MergeCondition(Unwrap(existing), r)
        THEN [account |-> (table \ existing) \cup {r},
              audit |-> AuditTrigger(audit, Unwrap(existing)), rows |-> 1]
        ELSE [account |-> table, audit |-> audit, rows |-> 0]

\* insert_account_audit_stmt: INSERT INTO account_audit VALUES (...)
InsertAccountAudit(audit, r) == audit (+) SetToBag({r})

UpsertAccountInternal_NoAuditInsert(table, audit, r, ok) ==
    IF ~ok
    THEN [account |-> table, audit |-> audit, rows |-> 0, result |-> "Err"]
    ELSE LET res == UpdateAccountStmt(table, audit, r)
         IN  [account |-> res.account, audit |-> res.audit, rows |-> res.rows, result |-> "Ok"]

\* upsert_account_internal: the upsert and, when it changed no row and the
\* audit statement is prepared, the audit insert.  ok = FALSE is the
\* statement failing in the database: nothing is written.
UpsertAccountInternal(table, audit, r, ok) ==
    IF ~ok
    THEN [account |-> table, audit |-> audit, rows |-> 0, result |-> "Err"]
    ELSE LET res == UpdateAccountStmt(table, audit, r)
         IN  [account |-> res.account,
              audit |-> IF res.rows = 0 /\ store_account_historical_data
                        THEN InsertAccountAudit(res.audit, r) ELSE res.audit,
              rows |-> res.rows,
              result |-> "Ok"]

(***************************************************************************)
(* The Sink under concurrent single-row upserts: every worker owns a       *)
(* connection and executes upsert_account for records in any order; a      *)
(* statement is atomic in the database.                                    *)
(***************************************************************************)
\* Number of Sink calls of a run.
MaxSinkOps == 3

\* The records the workers hold: DbAccountInfo with two slots, two write
\* versions and two contents, so that records of one pubkey may or may not
\* share their (slot, write_version).
SinkSlots == {3, 5}
SinkWriteVersions == {1, 9}
SinkLamports == {50, 100}

DbAccountInfo(pubkey, owner, lamports, sl, write_version) ==
    [pubkey |-> pubkey, owner |-> owner, lamports |-> lamports, data |-> <<>>,
     slot |-> sl, write_version |-> write_version]

SinkRecords ==
    {DbAccountInfo(p, Pubkey3, l, sl, wv) :
        p \in {Pubkey1, Pubkey2}, l \in SinkLamports, sl \in SinkSlots, wv \in SinkWriteVersions}

InitSink ==
    /\ OnLoadSelectors([accounts_selector |-> None, transaction_selector |-> None])
    /\ sel_query = NoQuery
    /\ account = {}
    /\ account_audit = EmptyBag
    /\ token_manager = {}
    /\ store_account_historical_data \in BOOLEAN
    /\ applied = {}
    /\ sink_op = NoSinkOp
    /\ PipelineIdle

\* SimplePostgresClient::upsert_account on the connection of worker w
SinkUpsertAccount(w, r, ok) ==
    /\ sink_op.n < MaxSinkOps
    /\ LET res == UpsertAccountInternal(account, account_audit, r, ok)
       IN  /\ account' = res.account
           /\ account_audit' = res.audit
           /\ applied' = IF ok THEN applied \cup {r} ELSE applied
           /\ sink_op' = [n |-> sink_op.n + 1, kind |-> "upsert_account", worker |-> w,
                          record |-> r, result |-> res.result, rows |-> res.rows]
    /\ UNCHANGED <<selVars, sel_query, token_manager, store_account_historical_data, pipeVars>>

NextSink ==
    \E w \in Workers, r \in SinkRecords, ok \in BOOLEAN : SinkUpsertAccount(w, r, ok)

SpecSink == InitSink /\ [][NextSink]_vars

(***************************************************************************)
(* Integers of the records.  The host's u64 and the database's i64 have    *)
(* U64_BITS bits in the model; "as i64" and "as u64" keep the bits.        *)
(***************************************************************************)
U64_BITS == 20

AsI64_Unbounded(x) == x

AsI64(x) == IF x >= 2 ^ (U64_BITS - 1) THEN x - 2 ^ U64_BITS ELSE x
AsU64(x) == IF x < 0 THEN x + 2 ^ U64_BITS ELSE x

SaturatingSub_Wrapping(a, b) == (a - b) % 2 ^ U64_BITS

SaturatingSub(a, b) == IF a > b THEN a - b ELSE 0

\* DbAccountInfo::new: the record of an account notification at a slot, with
\* lamports, slot and write_version cast to i64
DbAccountInfoNew(info, sl) ==
    [DbAccountInfo(info.pubkey, info.owner, AsI64(info.lamports), AsI64(sl),
                   AsI64(info.write_version))
         EXCEPT !.data = info.data]

\* DbBlockInfo::from; block_time is an i64 of the host and is taken as it is
DbBlockInfoFrom(block_info) ==
    [slot |-> AsI64(block_info.slot), blockhash |-> block_info.blockhash,
     rewards |-> block_info.rewards, block_time |-> block_info.block_time,
     block_height |-> {AsI64(h) : h \in block_info.block_height}]

\* build_db_transaction: the record of a transaction notification
BuildDbTransaction(sl, transaction_info, write_version) ==
    [slot |-> AsI64(sl), signature |-> transaction_info.signature,
     is_vote |-> transaction_info.is_vote, write_version |-> AsI64(write_version)]

(***************************************************************************)
(* The other statements of SimplePostgresClient                            *)
(***************************************************************************)
RECURSIVE BulkRows_NoCheck(_, _, _)
BulkRows_NoCheck(table, audit, rows) ==
    IF rows = <<>>
    THEN [account |-> table, audit |-> audit]
    ELSE BulkRows_NoCheck({x \in table : x.pubkey # Head(rows).pubkey} \cup {Head(rows)},
                          audit, Tail(rows))

\* bulk_account_insert_stmt: one INSERT of batch_size rows with the ON CONFLICT
\* clause of the single upsert.  The rows are taken in order.
RECURSIVE BulkRows(_, _, _)
BulkRows(table, audit, rows) ==
    IF rows = <<>>
    THEN [account |-> table, audit |-> audit]
    ELSE LET res == UpdateAccountStmt(table, audit, Head(rows))
         IN  BulkRows(res.account, res.audit, Tail(rows))

\* PostgreSQL rejects an INSERT ... ON CONFLICT DO UPDATE that proposes two
\* rows with one key ("cannot affect row a second time"); ok = FALSE is any
\* other failure.  A failed statement writes nothing.
BulkAccountInsertStmt(table, audit, rows, ok) ==
    IF \/ ~ok
       \/ \E i, j \in 1..Len(rows) : i # j /\ rows[i].pubkey = rows[j].pubkey
    THEN [account |-> table, audit |-> audit, result |-> "Err"]
    ELSE [account |-> BulkRows(table, audit, rows).account,
          audit |-> BulkRows(table, audit, rows).audit,
          result |-> "Ok"]

UpsertSlotStatusInternal_NullParent(table, sl, parent, status) ==
    {x \in table : x.slot # AsI64(sl)}
        \cup {[slot |-> AsI64(sl),
               parent |-> IF IsSome(parent) THEN Some(AsI64(Unwrap(parent))) ELSE None,
               status |-> status]}

UpsertSlotStatusInternal_InsertOnly(table, sl, parent, status) ==
    IF \E x \in table : x.slot = AsI64(sl)
    THEN table
    ELSE table \cup {[slot |-> AsI64(sl),
                      parent |-> IF IsSome(parent) THEN Some(AsI64(Unwrap(parent))) ELSE None,
                      status |-> status]}

\* update_slot_with_parent_stmt / update_slot_without_parent_stmt through
\* upsert_slot_status_internal: with a parent the row's parent and status are
\* replaced; without one a new row has no parent and an existing row keeps its own.
UpsertSlotStatusInternal(table, sl, parent, status) ==
    LET existing == {x \in table : x.slot = AsI64(sl)}
        new_parent == IF IsSome(parent) THEN Some(AsI64(Unwrap(parent)))
                      ELSE IF existing = {} THEN None
                      ELSE Unwrap(existing).parent
    IN  (table \ existing) \cup {[slot |-> AsI64(sl), parent |-> new_parent, status |-> status]}

UpsertSlotsRooted_First(table, S) ==
    IF S = {}
    THEN table
    ELSE UpsertSlotStatusInternal(table, CHOOSE x \in S : TRUE, None, "rooted")

\* The rows of the slots of S, each upserted Rooted without a parent.
RECURSIVE UpsertSlotsRooted(_, _)
UpsertSlotsRooted(table, S) ==
    IF S = {}
    THEN table
    ELSE LET sl == CHOOSE x \in S : TRUE
         IN  UpsertSlotsRooted(UpsertSlotStatusInternal(table, sl, None, "rooted"), S \ {sl})

UpsertBlockStmt_DoNothing(table, block_info) ==
    IF \E x \in table : x.slot = block_info.slot THEN table ELSE table \cup {block_info}

\* BlockHandler upsert_statement: INSERT INTO block ... ON CONFLICT (slot) DO UPDATE SET every column
UpsertBlockStmt(table, block_info) ==
    {x \in table : x.slot # block_info.slot} \cup {block_info}

\* insert_transaction: the row is added to the table of transactions
InsertTransaction(table, transaction_info) == table \cup {transaction_info}

\* get_highest_available_slot: SELECT slot FROM slot ORDER BY slot DESC LIMIT 1, or 0
GetHighestAvailableSlot(table) ==
    IF table = {} THEN 0
    ELSE AsU64(CHOOSE m \in {x.slot : x \in table} : \A x \in table : x.slot <= m)

SAFE_BATCH_STARTING_SLOT_CUSHION == 2 * 40960

\* build_pararallel_postgres_client: the startup floor of the plugin
BuildBatchStartingSlot(skip_upsert_existing_accounts_at_startup, table) ==
    IF skip_upsert_existing_accounts_at_startup
    THEN Some(SaturatingSub(GetHighestAvailableSlot(table), SAFE_BATCH_STARTING_SLOT_CUSHION))
    ELSE None

(***************************************************************************)
(* SimplePostgresClient, the connection and the buffers of one worker.     *)
(* self is the worker's record; an operation gives the new buffers, the    *)
(* new tables, the records its successful statements carried, its result.  *)
(***************************************************************************)
\* config.batch_size of the drawn runs
BatchSize == 2

BatchFull_AnyPending(pending) == Len(pending) >= 1

\* bulk_insert_accounts: if self.pending_account_updates.len() == self.batch_size
BatchFull(pending) == Len(pending) = BatchSize

\* "TokenkegQfeZyiNwAJbNbGKPFXCWuBvf9Ss623VQ5DA" and
\* "TokenzQdBNbLqP5VEhdkAS6EPFLC1PHnBqCXEpPxuEb" as base58 digits
TOKEN_PROGRAM_ID ==
    Bs58Decode(<<26, 46, 43, 37, 45, 43, 37, 39, 23, 38, 37, 32, 56, 41, 21, 54, 9, 17, 34, 21,
                 34, 15, 18, 22, 14, 30, 11, 29, 52, 10, 53, 38, 8, 25, 50, 5, 1, 2, 28, 23, 4,
                 12, 9>>)
TOKENZ_PROGRAM_ID ==
    Bs58Decode(<<26, 46, 43, 37, 45, 57, 23, 36, 10, 21, 34, 19, 48, 22, 4, 28, 13, 40, 36, 43,
                 9, 25, 5, 13, 22, 14, 19, 11, 0, 22, 16, 45, 10, 48, 11, 30, 13, 47, 22, 55, 52,
                 13, 34>>)

SPL_TOKEN_ACCOUNT_MINT_OFFSET == 0
SPL_TOKEN_ACCOUNT_OWNER_OFFSET == 32
SPL_TOKEN_ACCOUNT_LENGTH == 165
SPL_TOKEN_ACCOUNT_DISCRIMINATOR == 2

\* TokenAccount::unpack_account_owner / unpack_account_mint of an account
\* of a token program: the Pubkey at the offset of data that is as long as
\* a token account or carries the discriminator behind that length.
TokenAccountKey(acc, offset) ==
    IF /\ acc.owner \in {TOKENZ_PROGRAM_ID, TOKEN_PROGRAM_ID}
       /\ \/ Len(acc.data) = SPL_TOKEN_ACCOUNT_LENGTH
          \/ /\ Len(acc.data) > SPL_TOKEN_ACCOUNT_LENGTH
             /\ acc.data[SPL_TOKEN_ACCOUNT_LENGTH + 1] = SPL_TOKEN_ACCOUNT_DISCRIMINATOR
    THEN Some(SubSeq(acc.data, offset + 1, offset + PUBKEY_BYTES))
    ELSE None

\* queue_secondary_indexes, one of its two buffers: with the index enabled
\* the entry of a token account is pushed.
QueueSecondaryIndexes(enabled, pending, acc, offset) ==
    IF enabled /\ IsSome(TokenAccountKey(acc, offset))
    THEN Append(pending, [secondary_key |-> Unwrap(TokenAccountKey(acc, offset)),
                          account_key |-> acc.pubkey, slot |-> acc.slot])
    ELSE pending

\* bulk_insert_token_index_common: a buffer of batch_size entries is
\* written in one statement and cleared.  The statement is taken to succeed
\* and the index tables are not part of the modelled Sink.
BulkInsertTokenIndex(pending) == IF BatchFull(pending) THEN <<>> ELSE pending

ClientUpdateAccount_KeepFailedBatch(self, acc, is_startup, ok) ==
    IF ~is_startup
    THEN LET res == UpsertAccountInternal(account, account_audit, acc, ok)
         IN  [pending_account_updates |-> self.pending_account_updates,
              slots_at_startup |-> self.slots_at_startup,
              pending_token_owner_index |-> self.pending_token_owner_index,
              pending_token_mint_index |-> self.pending_token_mint_index,
              account |-> res.account, audit |-> res.audit,
              written |-> IF ok THEN {acc} ELSE {}, result |-> res.result]
    ELSE LET slots == self.slots_at_startup \cup {AsU64(acc.slot)}
             owner_index == QueueSecondaryIndexes(self.index_token_owner,
                                                  self.pending_token_owner_index, acc,
                                                  SPL_TOKEN_ACCOUNT_OWNER_OFFSET)
             mint_index == QueueSecondaryIndexes(self.index_token_mint,
                                                 self.pending_token_mint_index, acc,
                                                 SPL_TOKEN_ACCOUNT_MINT_OFFSET)
             pending == Append(self.pending_account_updates, acc)
         IN  IF BatchFull(pending)
             THEN LET res == BulkAccountInsertStmt(account, account_audit, pending, ok)
                  IN  [pending_account_updates |-> IF res.result = "Ok" THEN <<>> ELSE pending,
                       slots_at_startup |-> slots,
                       pending_token_owner_index |->
                           IF res.result = "Ok" THEN BulkInsertTokenIndex(owner_index)
                           ELSE owner_index,
                       pending_token_mint_index |->
                           IF res.result = "Ok" THEN BulkInsertTokenIndex(mint_index)
                           ELSE mint_index,
                       account |-> res.account, audit |-> res.audit,
                       written |-> IF res.result = "Ok" THEN Range(pending) ELSE {},
                       result |-> res.result]
             ELSE [pending_account_updates |-> pending, slots_at_startup |-> slots,
                   pending_token_owner_index |-> BulkInsertTokenIndex(owner_index),
                   pending_token_mint_index |-> BulkInsertTokenIndex(mint_index),
                   account |-> account, audit |-> account_audit,
                   written |-> {}, result |-> "Ok"]

ClientUpdateAccount_UpsertAlways(self, acc, is_startup, ok) ==
    LET res == UpsertAccountInternal(account, account_audit, acc, ok)
    IN  [pending_account_updates |-> self.pending_account_updates,
         slots_at_startup |-> self.slots_at_startup,
         pending_token_owner_index |-> self.pending_token_owner_index,
         pending_token_mint_index |-> self.pending_token_mint_index,
         account |-> res.account, audit |-> res.audit,
         written |-> IF ok THEN {acc} ELSE {}, result |-> res.result]

\* PostgresClient::update_account: the single upsert, or at startup the
\* slot set, the index buffers, the batch buffer and the bulk insert of a
\* full buffer, which empties the buffer whatever the statement returned;
\* the index buffers are looked at only after a bulk insert that succeeded.
ClientUpdateAccount(self, acc, is_startup, ok) ==
    IF ~is_startup
    THEN LET res == UpsertAccountInternal(account, account_audit, acc, ok)
         IN  [pending_account_updates |-> self.pending_account_updates,
              slots_at_startup |-> self.slots_at_startup,
              pending_token_owner_index |-> self.pending_token_owner_index,
              pending_token_mint_index |-> self.pending_token_mint_index,
              account |-> res.account, audit |-> res.audit,
              written |-> IF ok THEN {acc} ELSE {}, result |-> res.result]
    ELSE LET slots == self.slots_at_startup \cup {AsU64(acc.slot)}
             owner_index == QueueSecondaryIndexes(self.index_token_owner,
                                                  self.pending_token_owner_index, acc,
                                                  SPL_TOKEN_ACCOUNT_OWNER_OFFSET)
             mint_index == QueueSecondaryIndexes(self.index_token_mint,
                                                 self.pending_token_mint_index, acc,
                                                 SPL_TOKEN_ACCOUNT_MINT_OFFSET)
             pending == Append(self.pending_account_updates, acc)
         IN  IF BatchFull(pending)
             THEN LET res == BulkAccountInsertStmt(account, account_audit, pending, ok)
                  IN  [pending_account_updates |-> <<>>, slots_at_startup |-> slots,
                       pending_token_owner_index |->
                           IF res.result = "Ok" THEN BulkInsertTokenIndex(owner_index)
                           ELSE owner_index,
                       pending_token_mint_index |->
                           IF res.result = "Ok" THEN BulkInsertTokenIndex(mint_index)
                           ELSE mint_index,
                       account |-> res.account, audit |-> res.audit,
                       written |-> IF res.result = "Ok" THEN Range(pending) ELSE {},
                       result |-> res.result]
             ELSE [pending_account_updates |-> pending, slots_at_startup |-> slots,
                   pending_token_owner_index |-> BulkInsertTokenIndex(owner_index),
                   pending_token_mint_index |-> BulkInsertTokenIndex(mint_index),
                   account |-> account, audit |-> account_audit,
                   written |-> {}, result |-> "Ok"]

RECURSIVE UpsertAll(_, _, _)
UpsertAll(table, audit, accs) ==
    IF accs = <<>>
    THEN [account |-> table, audit |-> audit]
    ELSE LET res == UpsertAccountInternal(table, audit, Head(accs), TRUE)
         IN  UpsertAll(res.account, res.audit, Tail(accs))

\* How far flush_buffered_writes gets: every statement succeeds, or the
\* upsert after nacc accounts fails, or a slot upsert fails after the slots
\* of done (the set is walked in no fixed order).
FlushOutcomes(self) ==
    {[nacc |-> Len(self.pending_account_updates), done |-> self.slots_at_startup, ok |-> TRUE]}
    \cup {[nacc |-> k, done |-> {}, ok |-> FALSE] :
             k \in 0..(Len(self.pending_account_updates) - 1)}
    \cup {[nacc |-> Len(self.pending_account_updates), done |-> D, ok |-> FALSE] :
             D \in (SUBSET self.slots_at_startup) \ {self.slots_at_startup}}

ClearBufferedIndexes_Keep(pending) == pending

\* clear_buffered_indexes, one of its two buffers
ClearBufferedIndexes(pending) == <<>>

FlushBufferedWrites_IgnoreErrors(self, out) ==
    LET accs == SubSeq(self.pending_account_updates, 1, out.nacc)
        up == UpsertAll(account, account_audit, accs)
    IN  [pending_account_updates |-> <<>>,
         slots_at_startup |-> IF out.ok THEN {} ELSE self.slots_at_startup,
         pending_token_owner_index |->
             IF out.ok THEN ClearBufferedIndexes(self.pending_token_owner_index)
             ELSE self.pending_token_owner_index,
         pending_token_mint_index |->
             IF out.ok THEN ClearBufferedIndexes(self.pending_token_mint_index)
             ELSE self.pending_token_mint_index,
         account |-> up.account, audit |-> up.audit,
         slot |-> UpsertSlotsRooted(slot, out.done),
         written |-> Range(accs),
         result |-> "Ok"]

\* flush_buffered_writes: the buffered accounts through the single upsert
\* (drain empties the buffer also when it is left early), then each slot of
\* the set upserted Rooted without parent, then the set is cleared and
\* clear_buffered_indexes empties the two index buffers.
FlushBufferedWrites(self, out) ==
    LET accs == SubSeq(self.pending_account_updates, 1, out.nacc)
        up == UpsertAll(account, account_audit, accs)
    IN  [pending_account_updates |-> <<>>,
         slots_at_startup |-> IF out.ok THEN {} ELSE self.slots_at_startup,
         pending_token_owner_index |->
             IF out.ok THEN ClearBufferedIndexes(self.pending_token_owner_index)
             ELSE self.pending_token_owner_index,
         pending_token_mint_index |->
             IF out.ok THEN ClearBufferedIndexes(self.pending_token_mint_index)
             ELSE self.pending_token_mint_index,
         account |-> up.account, audit |-> up.audit,
         slot |-> UpsertSlotsRooted(slot, out.done),
         written |-> Range(accs),
         result |-> IF out.ok THEN "Ok" ELSE "Err"]

(***************************************************************************)
(* The producer: the host thread calls the plugin, the plugin filters and  *)
(* ParallelClient sends a WorkRequest on the bounded channel.  A work item *)
(* carries the number of the host call that made it (id).                  *)
(***************************************************************************)
\* Capacity of the channel in the drawn runs (40960 in the source).
MAX_ASYNC_REQUESTS == 2

\* Number of plugin calls the host makes in a run.
MaxCalls == 3

staticVars == <<selVars, sel_query, batch_starting_slot, panic_on_db_errors,
                store_account_historical_data, sink_op>>
tableVars == <<account, account_audit, token_manager, slot, block, transaction, applied>>
poolVars == <<exit_worker, is_startup_done, startup_done_count, initialized_worker_count,
              workers, worker, aborted>>

\* Every Receiver clone is owned by a worker thread and dropped when the
\* thread returns: the channel is disconnected once all of them have.
Disconnected == \A w \in Workers : worker[w].pc \in {"exited", "unspawned"}

ChannelHasRoom_OneMore(q) == Len(q) <= MAX_ASYNC_REQUESTS

\* bounded(MAX_ASYNC_REQUESTS): send takes the item while fewer are queued
ChannelHasRoom(q) == Len(q) < MAX_ASYNC_REQUESTS

\* The number of items the workers have taken from the channel.
Dequeued == Cardinality(sent) - Len(queue)

HostCanCall == ~aborted /\ host.pc = "idle" /\ host.calls < MaxCalls

SubmitResult_Swallow(send_ok) == "Ok"

\* if let Err(err) = self.sender.send(wrk_item) { return Err(..) } ... Ok(())
SubmitResult(send_ok) == IF send_ok THEN "Ok" ELSE "Err"

Returned(op, id, result, blocked) ==
    [op |-> op, id |-> id, result |-> result, blocked |-> blocked]

\* A plugin call that returns without sending.
Return(op, result) ==
    /\ host' = [host EXCEPT !.calls = @ + 1,
                            !.last = Returned(op, host.calls + 1, result, FALSE)]
    /\ UNCHANGED <<queue, sent>>

\* Sender::send: an error on a disconnected channel, the item queued when
\* there is room, and otherwise the caller waits inside send.
Send(op, item) ==
    IF Disconnected
    THEN /\ host' = [host EXCEPT !.calls = @ + 1,
                                 !.last = Returned(op, item.id, SubmitResult(FALSE), FALSE)]
         /\ UNCHANGED <<queue, sent>>
    ELSE IF ChannelHasRoom(queue)
    THEN /\ queue' = Append(queue, item)
         /\ sent' = sent \cup {item.id}
         /\ host' = [host EXCEPT !.calls = @ + 1,
                                 !.last = Returned(op, item.id, SubmitResult(TRUE), FALSE)]
    ELSE /\ host' = [host EXCEPT !.pc = "sending", !.item = Some([op |-> op, item |-> item]),
                                 !.calls = @ + 1, !.deq = Dequeued]
         /\ UNCHANGED <<queue, sent>>

\* The caller waiting in send is woken by room in the channel ...
SendResume ==
    /\ ~aborted
    /\ host.pc = "sending"
    /\ ~Disconnected
    /\ ChannelHasRoom(queue)
    /\ LET it == Unwrap(host.item)
       IN  /\ queue' = Append(queue, it.item)
           /\ sent' = sent \cup {it.item.id}
           /\ host' = [host EXCEPT !.pc = "idle", !.item = None,
                                   !.last = Returned(it.op, it.item.id, SubmitResult(TRUE), TRUE)]
    /\ UNCHANGED <<staticVars, tableVars, poolVars, transaction_write_version, account_calls, trace>>

\* ... or by the last receiver going away.
SendDisconnected ==
    /\ ~aborted
    /\ host.pc = "sending"
    /\ Disconnected
    /\ LET it == Unwrap(host.item)
       IN  host' = [host EXCEPT !.pc = "idle", !.item = None,
                                !.last = Returned(it.op, it.item.id, SubmitResult(FALSE), TRUE)]
    /\ UNCHANGED <<queue, sent, staticVars, tableVars, poolVars,
                   transaction_write_version, account_calls, trace>>

BelowStartingSlot_Inclusive(floor, sl, is_startup) ==
    is_startup /\ (IF IsSome(floor) THEN sl <= Unwrap(floor) ELSE FALSE)

\* is_startup && self.batch_starting_slot.map(|slot_limit| slot < slot_limit).unwrap_or(false)
BelowStartingSlot(floor, sl, is_startup) ==
    is_startup /\ (IF IsSome(floor) THEN sl < Unwrap(floor) ELSE FALSE)

AccountFilterPasses_NoSelectorAll(selector, pubkey, owner) ==
    IF IsSome(selector) THEN is_account_selected(Unwrap(selector), pubkey, owner) ELSE TRUE

\* if let Some(accounts_selector) ... is_account_selected ... else return Ok(())
AccountFilterPasses(selector, pubkey, owner) ==
    IF IsSome(selector) THEN is_account_selected(Unwrap(selector), pubkey, owner) ELSE FALSE

\* GeyserPluginPostgres::update_account and ParallelClient::update_account
UpdateAccount(info, sl, is_startup) ==
    /\ HostCanCall
    /\ account_calls' = account_calls \cup
           {[id |-> host.calls + 1, pubkey |-> info.pubkey, owner |-> info.owner,
             slot |-> sl, is_startup |-> is_startup]}
    /\ IF BelowStartingSlot(batch_starting_slot, sl, is_startup)
       THEN Return("update_account", "Ok")
       ELSE IF ~AccountFilterPasses(accounts_selector, info.pubkey, info.owner)
       THEN Return("update_account", "Ok")
       ELSE Send("update_account",
                 [kind |-> "UpdateAccount", id |-> host.calls + 1,
                  account |-> DbAccountInfoNew(info, sl), is_startup |-> is_startup])
    /\ UNCHANGED <<staticVars, tableVars, poolVars, transaction_write_version, trace>>

\* GeyserPluginPostgres::update_slot_status and ParallelClient::update_slot_status
UpdateSlotStatus(sl, parent, status) ==
    /\ HostCanCall
    /\ Send("update_slot_status",
            [kind |-> "UpdateSlot", id |-> host.calls + 1,
             slot |-> sl, parent |-> parent, slot_status |-> status])
    /\ trace' = [trace EXCEPT !.slot_calls = @ \cup
                      {[id |-> host.calls + 1, slot |-> sl, parent |-> parent, status |-> status]}]
    /\ UNCHANGED <<staticVars, tableVars, poolVars, transaction_write_version, account_calls>>

\* GeyserPluginPostgres::notify_block_metadata and ParallelClient::update_block_metadata
NotifyBlockMetadata(block_info) ==
    /\ HostCanCall
    /\ Send("update_block_metadata",
            [kind |-> "UpdateBlockMetadata", id |-> host.calls + 1,
             block_info |-> DbBlockInfoFrom(block_info)])
    /\ trace' = [trace EXCEPT !.block_calls = @ \cup
                      {[id |-> host.calls + 1, block_info |-> DbBlockInfoFrom(block_info)]}]
    /\ UNCHANGED <<staticVars, tableVars, poolVars, transaction_write_version, account_calls>>

TransactionFilterPasses_NoSelectorAll(selector, is_vote, mentioned) ==
    IF IsSome(selector) THEN is_transaction_selected(Unwrap(selector), is_vote, mentioned)
    ELSE TRUE

\* if let Some(transaction_selector) ... is_transaction_selected ... else return Ok(())
TransactionFilterPasses(selector, is_vote, mentioned) ==
    IF IsSome(selector) THEN is_transaction_selected(Unwrap(selector), is_vote, mentioned)
    ELSE FALSE

NotifyTransaction_StaleVersion(transaction_info, sl) ==
    /\ HostCanCall
    /\ IF ~TransactionFilterPasses(transaction_selector, transaction_info.is_vote,
                                   transaction_info.account_keys)
       THEN /\ Return("log_transaction_info", "Ok")
            /\ UNCHANGED transaction_write_version
       ELSE /\ transaction_write_version' = (transaction_write_version + 1) % (2 ^ U64_BITS)
            /\ Send("log_transaction_info",
                    [kind |-> "LogTransaction", id |-> host.calls + 1,
                     transaction_info |->
                         BuildDbTransaction(sl, transaction_info, transaction_write_version)])
    /\ UNCHANGED <<staticVars, tableVars, poolVars, account_calls, trace>>

\* GeyserPluginPostgres::notify_transaction and ParallelClient::log_transaction_info:
\* the write version is taken before the send.
NotifyTransaction(transaction_info, sl) ==
    /\ HostCanCall
    /\ IF ~TransactionFilterPasses(transaction_selector, transaction_info.is_vote,
                                   transaction_info.account_keys)
       THEN /\ Return("log_transaction_info", "Ok")
            /\ UNCHANGED transaction_write_version
       ELSE /\ transaction_write_version' = (transaction_write_version + 1) % (2 ^ U64_BITS)
            /\ Send("log_transaction_info",
                    [kind |-> "LogTransaction", id |-> host.calls + 1,
                     transaction_info |->
                         BuildDbTransaction(sl, transaction_info, transaction_write_version')])
    /\ UNCHANGED <<staticVars, tableVars, poolVars, account_calls, trace>>

BarrierOpen_LiveOnly(done, initialized) ==
    done >= Cardinality({w \in Workers : worker[w].pc \notin {"connecting", "exited"}})

BarrierOpen_AllThreads(done, initialized) == done = NumWorkers

BarrierOpen_AnyDone(done, initialized) == done > 0 \/ initialized = 0

\* while startup_done_count.load() != initialized_worker_count.load() { sleep }
BarrierOpen(done, initialized) == done = initialized

\* GeyserPluginPostgres::notify_end_of_startup entering
\* ParallelClient::notify_end_of_startup.  History: eos and eos_ids are
\* those of the first call.
NotifyEndOfStartup ==
    /\ HostCanCall
    /\ host' = [host EXCEPT !.pc = "eos_wait_queue", !.calls = @ + 1,
                            !.eos = IF @ = "none" THEN "called" ELSE @,
                            !.eos_ids = IF host.eos = "none" THEN sent ELSE @]
    /\ UNCHANGED <<queue, sent, staticVars, tableVars, poolVars,
                   transaction_write_version, account_calls, trace>>

EosQueueEmpty_NoWait ==
    /\ ~aborted
    /\ host.pc = "eos_wait_queue"
    /\ is_startup_done' = TRUE
    /\ host' = [host EXCEPT !.pc = "eos_wait_workers"]
    /\ UNCHANGED <<queue, sent, staticVars, tableVars, exit_worker, startup_done_count,
                   initialized_worker_count, workers, worker, aborted,
                   transaction_write_version, account_calls, trace>>

\* while !self.sender.is_empty() { sleep }  self.is_startup_done.store(true)
EosQueueEmpty ==
    /\ ~aborted
    /\ host.pc = "eos_wait_queue"
    /\ queue = <<>>
    /\ is_startup_done' = TRUE
    /\ host' = [host EXCEPT !.pc = "eos_wait_workers"]
    /\ UNCHANGED <<queue, sent, staticVars, tableVars, exit_worker, startup_done_count,
                   initialized_worker_count, workers, worker, aborted,
                   transaction_write_version, account_calls, trace>>

\* The loop condition loads startup_done_count, then initialized_worker_count.
EosLoadDone ==
    /\ ~aborted
    /\ host.pc = "eos_wait_workers"
    /\ host' = [host EXCEPT !.pc = "eos_compare", !.done_read = startup_done_count]
    /\ UNCHANGED <<queue, sent, staticVars, tableVars, poolVars,
                   transaction_write_version, account_calls, trace>>

EosCompare ==
    /\ ~aborted
    /\ host.pc = "eos_compare"
    /\ host' = IF BarrierOpen(host.done_read, initialized_worker_count)
               THEN [host EXCEPT !.pc = "idle", !.eos = "returned",
                                 !.last = Returned("notify_end_of_startup", host.calls, "Ok", FALSE)]
               ELSE [host EXCEPT !.pc = "eos_wait_workers"]
    /\ UNCHANGED <<queue, sent, staticVars, tableVars, poolVars,
                   transaction_write_version, account_calls, trace>>

\* GeyserPluginPostgres::on_unload entering ParallelClient::join: the exit
\* flag is set, and with no handle left join returns at once.  History:
\* unload_ids are the items in the channel at the call.
OnUnload ==
    /\ HostCanCall
    /\ exit_worker' = TRUE
    /\ host' = IF workers = <<>>
               THEN [host EXCEPT !.calls = @ + 1, !.unload_ids = {it.id : it \in Range(queue)},
                                 !.last = Returned("on_unload", host.calls + 1, "Ok", FALSE)]
               ELSE [host EXCEPT !.pc = "joining", !.calls = @ + 1,
                                 !.unload_ids = {it.id : it \in Range(queue)}]
    /\ UNCHANGED <<queue, sent, staticVars, tableVars, is_startup_done, startup_done_count,
                   initialized_worker_count, workers, worker, aborted,
                   transaction_write_version, account_calls, trace>>

JoinWorker_NoWait ==
    /\ ~aborted
    /\ host.pc = "joining"
    /\ workers # <<>>
    /\ workers' = SubSeq(workers, 1, Len(workers) - 1)
    /\ host' = IF workers' = <<>>
               THEN [host EXCEPT !.pc = "idle",
                                 !.last = Returned("on_unload", host.calls, "Ok", FALSE)]
               ELSE host
    /\ UNCHANGED <<queue, sent, staticVars, tableVars, exit_worker, is_startup_done,
                   startup_done_count, initialized_worker_count, worker, aborted,
                   transaction_write_version, account_calls, trace>>

\* self.workers.pop() and worker.join(): the last handle, once its thread has returned
JoinWorker ==
    /\ ~aborted
    /\ host.pc = "joining"
    /\ workers # <<>>
    /\ worker[workers[Len(workers)]].pc = "exited"
    /\ workers' = SubSeq(workers, 1, Len(workers) - 1)
    /\ host' = IF workers' = <<>>
               THEN [host EXCEPT !.pc = "idle",
                                 !.last = Returned("on_unload", host.calls, "Ok", FALSE)]
               ELSE host
    /\ UNCHANGED <<queue, sent, staticVars, tableVars, exit_worker, is_startup_done,
                   startup_done_count, initialized_worker_count, worker, aborted,
                   transaction_write_version, account_calls, trace>>

(***************************************************************************)
(* The worker threads.  The closure of ParallelClient::new connects and    *)
(* counts the worker in; the loop it then enters, do_work, pulls an item,  *)
(* applies it to the Sink, flushes the startup buffers once it sees        *)
(* is_startup_done, and leaves when exit_worker is set and the channel is  *)
(* drained, or on a Sink error.                                            *)
(***************************************************************************)
\* History: the worker, the stage and the id of the item (0 without one) of a failure.
Failure(w, stage, id) == [worker |-> w, stage |-> stage, id |-> id]

WorkerFails_GoesOn(w, self) ==
    /\ aborted' = aborted
    /\ worker' = [worker EXCEPT ![w] = [self EXCEPT !.pc = "idle", !.item = None]]

\* A Sink error in a worker: abort() under panic_on_db_errors, else the thread returns Err.
WorkerFails(w, self) ==
    IF panic_on_db_errors
    THEN /\ aborted' = TRUE
         /\ worker' = [worker EXCEPT ![w] = self]
    ELSE /\ aborted' = aborted
         /\ worker' = [worker EXCEPT ![w] = [self EXCEPT !.pc = "exited", !.item = None,
                                                         !.result = "Err"]]

WorkerConnect_CountFirst(w, ok) ==
    /\ ~aborted
    /\ worker[w].pc = "connecting"
    /\ initialized_worker_count' = initialized_worker_count + 1
    /\ IF ok
       THEN /\ worker' = [worker EXCEPT ![w].pc = "idle"]
            /\ aborted' = aborted
       ELSE WorkerFails(w, worker[w])
    /\ trace' = IF ok THEN trace ELSE [trace EXCEPT !.failed = @ \cup {Failure(w, "connect", 0)}]
    /\ UNCHANGED <<queue, sent, host, staticVars, tableVars, exit_worker, is_startup_done,
                   startup_done_count, workers, transaction_write_version, account_calls>>

\* ParallelClientWorker::new(config): Ok counts the worker in, Err aborts or returns Err
WorkerConnect(w, ok) ==
    /\ ~aborted
    /\ worker[w].pc = "connecting"
    /\ IF ok
       THEN /\ initialized_worker_count' = initialized_worker_count + 1
            /\ worker' = [worker EXCEPT ![w].pc = "idle"]
            /\ aborted' = aborted
       ELSE /\ initialized_worker_count' = initialized_worker_count
            /\ WorkerFails(w, worker[w])
    /\ trace' = IF ok THEN trace ELSE [trace EXCEPT !.failed = @ \cup {Failure(w, "connect", 0)}]
    /\ UNCHANGED <<queue, sent, host, staticVars, tableVars, exit_worker, is_startup_done,
                   startup_done_count, workers, transaction_write_version, account_calls>>

ChannelRecv_Lifo(q) == [item |-> q[Len(q)], queue |-> SubSeq(q, 1, Len(q) - 1)]

ChannelRecv_Broadcast(q) == [item |-> Head(q), queue |-> q]

\* let (sender, receiver) = bounded(..); receiver.clone() for each worker: the
\* clones share one queue, and a receive takes its head away from all of them
ChannelRecv(q) == [item |-> Head(q), queue |-> Tail(q)]

\* do_work: the worker takes the item at the head of the channel
WorkerRecv(w) ==
    /\ ~aborted
    /\ worker[w].pc = "idle"
    /\ queue # <<>>
    /\ queue' = ChannelRecv(queue).queue
    /\ worker' = [worker EXCEPT ![w].pc = "working", ![w].item = Some(ChannelRecv(queue).item)]
    /\ trace' = [trace EXCEPT !.received = @ (+) SetToBag({ChannelRecv(queue).item.id}),
                              !.dequeued = Append(@, ChannelRecv(queue).item)]
    /\ UNCHANGED <<sent, host, staticVars, tableVars, exit_worker, is_startup_done,
                   startup_done_count, initialized_worker_count, workers, aborted,
                   transaction_write_version, account_calls>>

\* The Sink operation of a work item on the worker's client; ok = FALSE is
\* the database failing the statement.
Dispatch(self, item, ok) ==
    LET same == [pending_account_updates |-> self.pending_account_updates,
                 slots_at_startup |-> self.slots_at_startup,
                 pending_token_owner_index |-> self.pending_token_owner_index,
                 pending_token_mint_index |-> self.pending_token_mint_index,
                 account |-> account, audit |-> account_audit, slot |-> slot,
                 block |-> block, transaction |-> transaction, written |-> {},
                 result |-> IF ok THEN "Ok" ELSE "Err"]
    IN  CASE item.kind = "UpdateAccount" ->
                LET res == ClientUpdateAccount(self, item.account, item.is_startup, ok)
                IN  [same EXCEPT !.pending_account_updates = res.pending_account_updates,
                                 !.slots_at_startup = res.slots_at_startup,
                                 !.pending_token_owner_index = res.pending_token_owner_index,
                                 !.pending_token_mint_index = res.pending_token_mint_index,
                                 !.account = res.account, !.audit = res.audit,
                                 !.written = res.written, !.result = res.result]
          [] item.kind = "UpdateSlot" ->
                IF ok
                THEN [same EXCEPT !.slot = UpsertSlotStatusInternal(slot, item.slot, item.parent,
                                                                    item.slot_status)]
                ELSE same
          [] item.kind = "UpdateBlockMetadata" ->
                IF ok THEN [same EXCEPT !.block = UpsertBlockStmt(block, item.block_info)]
                ELSE same
          [] item.kind = "LogTransaction" ->
                IF ok
                THEN [same EXCEPT !.transaction = InsertTransaction(transaction,
                                                                    item.transaction_info)]
                ELSE same

\* do_work: the item in hand is applied; an error ends the worker
WorkerApply(w, ok) ==
    /\ ~aborted
    /\ worker[w].pc = "working"
    /\ LET res == Dispatch(worker[w], Unwrap(worker[w].item), ok)
           self == [worker[w] EXCEPT !.pending_account_updates = res.pending_account_updates,
                                     !.slots_at_startup = res.slots_at_startup,
                                     !.pending_token_owner_index = res.pending_token_owner_index,
                                     !.pending_token_mint_index = res.pending_token_mint_index]
       IN  /\ account' = res.account
           /\ account_audit' = res.audit
           /\ slot' = res.slot
           /\ block' = res.block
           /\ transaction' = res.transaction
           /\ applied' = applied \cup res.written
           /\ IF res.result = "Ok"
              THEN /\ worker' = [worker EXCEPT ![w] = [self EXCEPT !.pc = "idle", !.item = None]]
                   /\ aborted' = aborted
              ELSE WorkerFails(w, self)
           /\ trace' = IF res.result = "Ok" THEN trace
                       ELSE [trace EXCEPT !.failed = @ \cup
                                {Failure(w, "apply", Unwrap(worker[w].item).id)}]
    /\ UNCHANGED <<queue, sent, host, staticVars, token_manager, exit_worker, is_startup_done,
                   startup_done_count, initialized_worker_count, workers,
                   transaction_write_version, account_calls>>

\* do_work: a worker between items that sees is_startup_done for the first
\* time flushes its buffers and counts itself done; an error ends the worker
WorkerFlush(w, out) ==
    /\ ~aborted
    /\ worker[w].pc = "idle"
    /\ is_startup_done
    /\ ~worker[w].is_startup_done
    /\ LET res == FlushBufferedWrites(worker[w], out)
           self == [worker[w] EXCEPT !.pending_account_updates = res.pending_account_updates,
                                     !.slots_at_startup = res.slots_at_startup,
                                     !.pending_token_owner_index = res.pending_token_owner_index,
                                     !.pending_token_mint_index = res.pending_token_mint_index]
       IN  /\ account' = res.account
           /\ account_audit' = res.audit
           /\ slot' = res.slot
           /\ applied' = applied \cup res.written
           /\ IF res.result = "Ok"
              THEN /\ worker' = [worker EXCEPT ![w] = [self EXCEPT !.is_startup_done = TRUE]]
                   /\ startup_done_count' = startup_done_count + 1
                   /\ aborted' = aborted
              ELSE /\ WorkerFails(w, self)
                   /\ startup_done_count' = startup_done_count
           /\ trace' = IF res.result = "Ok" THEN trace
                       ELSE [trace EXCEPT !.failed = @ \cup {Failure(w, "flush", 0)}]
    /\ UNCHANGED <<queue, sent, host, staticVars, token_manager, block, transaction,
                   exit_worker, is_startup_done, initialized_worker_count, workers,
                   transaction_write_version, account_calls>>

\* do_work: the exit flag is set and the channel is drained
WorkerExit(w) ==
    /\ ~aborted
    /\ worker[w].pc = "idle"
    /\ exit_worker
    /\ queue = <<>>
    /\ worker' = [worker EXCEPT ![w].pc = "exited", ![w].result = "Ok"]
    /\ UNCHANGED <<queue, sent, host, staticVars, tableVars, exit_worker, is_startup_done,
                   startup_done_count, initialized_worker_count, workers, aborted,
                   transaction_write_version, account_calls, trace>>

(***************************************************************************)
(* The pipeline as a state machine: a loaded plugin that selects every     *)
(* account and the vote transactions, has no startup floor, and whose      *)
(* host makes at most MaxCalls calls while the workers run.                *)
(***************************************************************************)
\* The notifications of the host: two accounts, which the host numbers by
\* write_version, one slot confirmed with or without its parent, one block,
\* and a transaction that is a vote or not.
HostAccounts ==
    {[pubkey |-> Pubkey1, owner |-> Pubkey3, lamports |-> 50, data |-> <<>>],
     [pubkey |-> Pubkey2, owner |-> Pubkey1, lamports |-> 50, data |-> <<>>]}

ReplicaAccountInfo(a, write_version) ==
    [pubkey |-> a.pubkey, owner |-> a.owner, lamports |-> a.lamports, data |-> a.data,
     write_version |-> write_version]

HostSlot == 4
HostParents == {None, Some(3)}
HostStatuses == {"confirmed"}
HostBlocks ==
    {[slot |-> HostSlot, blockhash |-> "hash", rewards |-> <<>>,
      block_time |-> Some(1), block_height |-> Some(1)]}
HostTransactions ==
    {[signature |-> "sig", is_vote |-> v, account_keys |-> {Pubkey1}] : v \in BOOLEAN}

\* on_load with a config file of these sections and flags, on a database
\* whose table slot holds the rows of slots0
OnLoad(cfg, skip_upsert_existing_accounts_at_startup, slots0) ==
    /\ OnLoadSelectors(cfg)
    /\ sel_query = NoQuery
    /\ SinkIdle
    /\ slot = slots0
    /\ block = {}
    /\ transaction = {}
    /\ batch_starting_slot =
           BuildBatchStartingSlot(skip_upsert_existing_accounts_at_startup, slots0)
    /\ ParallelClientNew
    /\ NoHistory

PipelineConfig ==
    [accounts_selector |-> Some([accounts |-> Some(<<Star>>), owners |-> None]),
     transaction_selector |-> Some([mentions |-> <<AllVotes>>])]

InitPipeline ==
    /\ OnLoad(PipelineConfig, FALSE, {})
    /\ panic_on_db_errors \in BOOLEAN

\* The host passes is_startup only before it has notified the end of startup.
StartupFlags == IF host.eos = "none" THEN BOOLEAN ELSE {FALSE}

WorkerNext ==
    \/ \E w \in Workers, ok \in BOOLEAN : WorkerConnect(w, ok)
    \/ \E w \in Workers : WorkerRecv(w)
    \/ \E w \in Workers, ok \in BOOLEAN : WorkerApply(w, ok)
    \/ \E w \in Workers : \E out \in FlushOutcomes(worker[w]) : WorkerFlush(w, out)
    \/ \E w \in Workers : WorkerExit(w)

HostWaits ==
    \/ SendResume
    \/ SendDisconnected
    \/ EosQueueEmpty
    \/ EosLoadDone
    \/ EosCompare
    \/ JoinWorker

NextPipeline ==
    \/ \E a \in HostAccounts, is_startup \in StartupFlags :
           UpdateAccount(ReplicaAccountInfo(a, host.calls + 1), HostSlot, is_startup)
    \/ \E parent \in HostParents, status \in HostStatuses :
           UpdateSlotStatus(HostSlot, parent, status)
    \/ \E b \in HostBlocks : NotifyBlockMetadata(b)
    \/ \E t \in HostTransactions : NotifyTransaction(t, HostSlot)
    \/ host.eos = "none" /\ NotifyEndOfStartup
    \/ OnUnload
    \/ HostWaits
    \/ WorkerNext

SpecPipeline == InitPipeline /\ [][NextPipeline]_vars

(***************************************************************************)
(* The account filters as a state machine: plugins loaded with or without  *)
(* an accounts selector and with or without a startup floor, on a database *)
(* that does not fail; the host notifies account updates around the floor  *)
(* and the end of startup, and the workers carry what is enqueued to the   *)
(* Sink.                                                                   *)
(***************************************************************************)
\* The highest slot of the database at load: the floor is FilterFloor.
FilterFloor == 4
FilterHighestSlot == SAFE_BATCH_STARTING_SLOT_CUSHION + FilterFloor
FilterSlots == {FilterFloor - 1, FilterFloor, FilterFloor + 1}

\* The plugins of the runs: the accounts selector of the config file (none,
\* the accounts owned by Pubkey3, the account Pubkey2, every account), the
\* flag skip_upsert_existing_accounts_at_startup, and the table slot at load
\* (empty, or holding the highest slot).
NoSelector == None
OwnedByKey3 == Some([accounts |-> None, owners |-> Some(<<Key3>>)])
OnlyKey2 == Some([accounts |-> Some(<<Key2>>), owners |-> None])
EveryAccount == Some([accounts |-> Some(<<Star>>), owners |-> None])

HighestSlotRow == [slot |-> AsI64(FilterHighestSlot), parent |-> None, status |-> "rooted"]

FilterPlugins ==
    {<<NoSelector, TRUE, {HighestSlotRow}>>,
     <<OwnedByKey3, TRUE, {HighestSlotRow}>>,
     <<OnlyKey2, FALSE, {HighestSlotRow}>>,
     <<OnlyKey2, TRUE, {}>>,
     <<EveryAccount, TRUE, {HighestSlotRow}>>}

InitFilter ==
    /\ \E p \in FilterPlugins :
           OnLoad([accounts_selector |-> p[1], transaction_selector |-> None], p[2], p[3])
    /\ panic_on_db_errors = FALSE

NextFilter ==
    \/ \E a \in HostAccounts, sl \in FilterSlots, is_startup \in StartupFlags :
           UpdateAccount(ReplicaAccountInfo(a, host.calls + 1), sl, is_startup)
    \/ host.eos = "none" /\ NotifyEndOfStartup
    \/ SendResume
    \/ EosQueueEmpty
    \/ EosLoadDone
    \/ EosCompare
    \/ \E w \in Workers : WorkerConnect(w, TRUE)
    \/ \E w \in Workers : WorkerRecv(w)
    \/ \E w \in Workers : WorkerApply(w, TRUE)
    \/ \E w \in Workers : \E out \in {o \in FlushOutcomes(worker[w]) : o.ok} : WorkerFlush(w, out)

SpecFilter == InitFilter /\ [][NextFilter]_vars

(***************************************************************************)
(* Claims about the account merge rule, checked under SpecSink             *)
(***************************************************************************)
AppliedFor(pubkey) == {r \in applied : r.pubkey = pubkey}

PairLeq(a, b) ==
    a.slot < b.slot \/ (a.slot = b.slot /\ a.write_version <= b.write_version)

\* The host numbers the writes of an account, so the records of one pubkey
\* differ in their (slot, write_version).
DistinctPairs(S) ==
    \A a \in S, b \in S : (a.slot = b.slot /\ a.write_version = b.write_version) => a = b

\* C1: in every reachable state of the Sink, for every pubkey, the persisted
\* row is an applied record whose (slot, write_version) is the greatest among
\* the records of that pubkey applied so far through the single-row upsert,
\* by whatever worker and in whatever order; when the applied records of the
\* pubkey differ in their (slot, write_version), the row is the one record
\* with the greatest pair, so the state does not depend on the arrival order.
C1_MonotonicConvergence ==
    \A pubkey \in {Pubkey1, Pubkey2} :
        LET A == AppliedFor(pubkey)
            row == RowOf(account, pubkey)
        IN  /\ A = {} => row = {}
            /\ A # {} =>
                  /\ row # {}
                  /\ row \subseteq A
                  /\ \A x \in A : PairLeq(x, Unwrap(row))
                  /\ DistinctPairs(A) =>
                        row = {r \in A : \A x \in A : PairLeq(x, r)}

\* (slot=5, wv=1, lamports=100) was applied, then another worker applied
\* (slot=3, wv=9, lamports=50): lamports is 100.
C1_Witness ==
    /\ sink_op.kind = "upsert_account"
    /\ sink_op.result = "Ok"
    /\ sink_op.record = DbAccountInfo(Pubkey1, Pubkey3, 50, 3, 9)
    /\ sink_op.worker = 2
    /\ AppliedFor(Pubkey1) = {DbAccountInfo(Pubkey1, Pubkey3, 100, 5, 1),
                              DbAccountInfo(Pubkey1, Pubkey3, 50, 3, 9)}
    /\ RowOf(account, Pubkey1) = {DbAccountInfo(Pubkey1, Pubkey3, 100, 5, 1)}

\* C2: a single-row upsert of r inserts r when r.pubkey has no row; when a
\* row exists it replaces the row by r exactly when r.slot > stored.slot, or
\* r.slot = stored.slot and r.write_version > stored.write_version; otherwise,
\* an equal (slot, write_version) included, the table is left unchanged.
C2_UpsertRule ==
    [][(sink_op'.n = sink_op.n + 1 /\ sink_op'.kind = "upsert_account" /\ sink_op'.result = "Ok") =>
          LET r == sink_op'.record
              stored == RowOf(account, r.pubkey)
          IN  IF stored = {}
              THEN account' = account \cup {r}
              ELSE IF \/ r.slot > Unwrap(stored).slot
                      \/ /\ r.slot = Unwrap(stored).slot
                         /\ r.write_version > Unwrap(stored).write_version
              THEN account' = (account \ stored) \cup {r}
              ELSE account' = account]_vars

\* A record with the stored (slot, write_version) and another content was
\* upserted and the stored row was kept.
C2_Witness ==
    /\ sink_op.kind = "upsert_account"
    /\ sink_op.result = "Ok"
    /\ sink_op.rows = 0
    /\ \E x \in RowOf(account, sink_op.record.pubkey) :
          /\ x.slot = sink_op.record.slot
          /\ x.write_version = sink_op.record.write_version
          /\ x.lamports # sink_op.record.lamports

(***************************************************************************)
(* Claims about the selectors, checked under SpecSelector                  *)
(***************************************************************************)

\* C7: is_account_selected(pubkey, owner) is true exactly when the wildcard
\* flag is set, or pubkey is in the accounts set, or owner is in the owners
\* set; a config whose accounts list contains "*" selects every input; an
\* owners-only config {O} selects (pk, O) for every pk and rejects (pk, O2)
\* for every O2 other than O.
C7_AccountSelection ==
    sel_query.kind = "account" =>
        LET sel == Unwrap(accounts_selector)
            cfg == Unwrap(config.accounts_selector)
        IN  /\ sel_query.result <=>
                  \/ sel.select_all_accounts
                  \/ sel_query.pubkey \in sel.accounts
                  \/ sel_query.owner \in sel.owners
            /\ Star \in Range(OptList(cfg.accounts)) => sel_query.result
            /\ (cfg.accounts = None /\ IsSome(cfg.owners) /\ Len(OptList(cfg.owners)) = 1) =>
                  (sel_query.result <=> sel_query.owner = Bs58Decode(OptList(cfg.owners)[1]))

\* An owners-only selector {Key1} has selected an account it does not list,
\* by its owner.
C7_Witness ==
    /\ sel_query.kind = "account"
    /\ config.accounts_selector = Some([accounts |-> None, owners |-> Some(<<Key1>>)])
    /\ sel_query.pubkey = Pubkey3
    /\ sel_query.owner = Pubkey1
    /\ sel_query.result

\* C8: is_transaction_selected(is_vote, mentioned) is true exactly when
\* select-all is set, or select-all-votes is set and is_vote is true, or a
\* mentioned address is in the configured address set.
C8_TransactionSelection ==
    sel_query.kind = "transaction" =>
        LET sel == Unwrap(transaction_selector)
        IN  sel_query.result <=>
                \/ sel.select_all_transactions
                \/ (sel.select_all_vote_transactions /\ sel_query.is_vote)
                \/ sel_query.mentioned \cap sel.mentioned_addresses # {}

\* An all-votes selector has rejected a non-vote transaction.
C8_Witness ==
    /\ sel_query.kind = "transaction"
    /\ Unwrap(transaction_selector).select_all_vote_transactions
    /\ ~Unwrap(transaction_selector).select_all_transactions
    /\ ~sel_query.is_vote
    /\ sel_query.mentioned # {}
    /\ ~sel_query.result

\* C9: for both selectors is_enabled() is true exactly when some input is
\* selected, and the capability queries return is_enabled() of a configured
\* selector and false when the selector is not configured.  An input of
\* is_account_selected is a pair of byte strings; an input of
\* is_transaction_selected is a vote flag and a set of Pubkeys.
C9_EnabledIffSelectable ==
    sel_query.kind = "enabled" =>
        /\ sel_query.accounts <=>
              /\ IsSome(accounts_selector)
              /\ \E pubkey \in ByteStrings, owner \in ByteStrings :
                     is_account_selected(Unwrap(accounts_selector), pubkey, owner)
        /\ sel_query.transactions <=>
              /\ IsSome(transaction_selector)
              /\ \E is_vote \in BOOLEAN, mentioned \in SUBSET Pubkeys :
                     is_transaction_selected(Unwrap(transaction_selector), is_vote, mentioned)

(***************************************************************************)
(* Claims about the queue, the barrier and the producer's errors, checked  *)
(* under SpecPipeline                                                      *)
(***************************************************************************)
AllWorkersExited == \A w \in Workers : worker[w].pc = "exited"

QueueIds == {queue[i].id : i \in 1..Len(queue)}

\* The host call of a step, read off the host after the step: the call it is
\* waiting in, or the call that has just returned.
CallOp ==
    IF host'.pc = "sending" THEN Unwrap(host'.item).op
    ELSE IF host'.pc = "idle" /\ host'.last.id = host'.calls THEN host'.last.op
    ELSE "other"

\* A step in which the host makes a call that reaches Sender::send: every
\* update_account (the plugin of SpecPipeline selects every account and has
\* no floor), update_slot_status and update_block_metadata call, and the
\* log_transaction_info calls, which take a write version.
SubmitStep ==
    /\ host'.calls = host.calls + 1
    /\ \/ CallOp \in {"update_account", "update_slot_status", "update_block_metadata"}
       \/ CallOp = "log_transaction_info" /\ transaction_write_version' # transaction_write_version

\* C3: once notify_end_of_startup has returned, every account update that was
\* enqueued before the call has been carried by a successful Sink statement and
\* is neither in the queue, nor in a worker's hand, nor in a worker's batch
\* buffer; the slot of each such startup update has a row in table slot, and so
\* has every slot still held in a worker's startup slot set.
C3_EndOfStartupBarrier ==
    host.eos = "returned" =>
        /\ \A c \in account_calls :
               c.id \in host.eos_ids =>
                   /\ \E r \in applied : r.pubkey = c.pubkey /\ r.write_version = c.id
                   /\ c.id \notin QueueIds
                   /\ \A w \in Workers :
                          /\ \A it \in worker[w].item : it.id # c.id
                          /\ \A j \in 1..Len(worker[w].pending_account_updates) :
                                 worker[w].pending_account_updates[j].write_version # c.id
                   /\ c.is_startup => \E x \in slot : x.slot = c.slot
        /\ \A w \in Workers : \A sl \in worker[w].slots_at_startup :
               \E x \in slot : x.slot = sl

\* The barrier has returned after two startup updates were enqueued, and
\* every worker had connected and has flushed.
C3_Witness ==
    /\ host.eos = "returned"
    /\ Cardinality({c \in account_calls : c.is_startup /\ c.id \in host.eos_ids}) >= 2
    /\ initialized_worker_count = NumWorkers
    /\ \A w \in Workers : worker[w].is_startup_done

\* C4: the queue never holds more than MAX_ASYNC_REQUESTS items.  A submit made
\* on a connected channel holding fewer items returns Ok in the same step with
\* its item at the tail; one made while the channel is full leaves the queue as
\* it is and the host inside send, its item in no queue position; that send
\* ends either with Ok after a worker has dequeued since, appending the item
\* then, or with Err and the queue unchanged when every worker has exited.
C4_Backpressure ==
    /\ [](Len(queue) <= MAX_ASYNC_REQUESTS)
    /\ [](host.pc = "sending" =>
              /\ Unwrap(host.item).item.id \notin QueueIds
              /\ Unwrap(host.item).item.id \notin sent)
    /\ [][/\ (SubmitStep /\ ~AllWorkersExited /\ Len(queue) < MAX_ASYNC_REQUESTS) =>
                 /\ host'.pc = "idle"
                 /\ host'.last.result = "Ok"
                 /\ Len(queue') = Len(queue) + 1
                 /\ queue'[Len(queue')].id = host'.calls
                 /\ SubSeq(queue', 1, Len(queue)) = queue
          /\ (SubmitStep /\ ~AllWorkersExited /\ Len(queue) = MAX_ASYNC_REQUESTS) =>
                 /\ host'.pc = "sending"
                 /\ queue' = queue
          /\ (host.pc = "sending" /\ host'.pc # "sending") =>
                 \/ /\ host'.last.result = "Ok"
                    /\ Cardinality(sent) - Len(queue) > host.deq
                    /\ queue' = Append(queue, Unwrap(host.item).item)
                 \/ /\ host'.last.result = "Err"
                    /\ AllWorkersExited
                    /\ queue' = queue
      ]_vars

\* A submit that waited on the full channel has returned Ok and its item is
\* the last of a queue that is full again.
C4_Witness ==
    /\ host.pc = "idle"
    /\ host.last.op # "none"
    /\ host.last.blocked
    /\ host.last.result = "Ok"
    /\ Len(queue) = MAX_ASYNC_REQUESTS
    /\ queue[Len(queue)].id = host.last.id

\* C10: once every worker thread has returned, a submit returns Err in the same
\* step, the host is not left inside send, and the queue and the set of accepted
\* items stay as they are; a host that was waiting inside send returns Err for
\* the call it was making, without a new call; an item whose submit returned Err
\* is never in the queue.
C10_SubmitAfterWorkersExited ==
    /\ [][/\ (SubmitStep /\ AllWorkersExited) =>
                 /\ host'.pc = "idle"
                 /\ host'.last.result = "Err"
                 /\ host'.last.id = host'.calls
                 /\ queue' = queue
                 /\ sent' = sent
          /\ (host.pc = "sending" /\ AllWorkersExited /\ host' # host) =>
                 /\ host'.pc = "idle"
                 /\ host'.last.result = "Err"
                 /\ host'.last.id = Unwrap(host.item).item.id
                 /\ host'.calls = host.calls
                 /\ queue' = queue
                 /\ sent' = sent
      ]_vars
    /\ []((host.last.op # "none" /\ host.last.result = "Err") =>
              (host.last.id \notin sent /\ host.last.id \notin QueueIds))

\* The host was waiting inside send on a full queue when the last worker
\* returned, and its call has returned Err.
C10_Witness ==
    /\ AllWorkersExited
    /\ host.pc = "idle"
    /\ host.last.op # "none"
    /\ host.last.blocked
    /\ host.last.result = "Err"
    /\ Len(queue) = MAX_ASYNC_REQUESTS

(***************************************************************************)
(* Claims about the filters of update_account, checked under SpecFilter    *)
(***************************************************************************)
\* The call is the startup update below the configured floor.
BelowFloor(c) ==
    /\ c.is_startup
    /\ IsSome(batch_starting_slot)
    /\ c.slot < Unwrap(batch_starting_slot)

\* The configured accounts selector selects the account of the call.
SelectedCall(c) ==
    /\ IsSome(accounts_selector)
    /\ is_account_selected(Unwrap(accounts_selector), c.pubkey, c.owner)

\* The update of the call is somewhere past the filters: accepted by the
\* channel, queued, in a worker's hand or buffer, carried by a Sink statement,
\* or a row of table account.
PastFilters(c) ==
    \/ c.id \in sent
    \/ c.id \in QueueIds
    \/ \E w \in Workers :
           \/ \E it \in worker[w].item : it.id = c.id
           \/ \E j \in 1..Len(worker[w].pending_account_updates) :
                  worker[w].pending_account_updates[j].write_version = c.id
    \/ \E r \in applied \cup account : r.write_version = c.id

\* The update_account call of a step.
NewCall == CHOOSE c \in account_calls' \ account_calls : TRUE

ReturnsOkUntouched ==
    /\ host'.pc = "idle"
    /\ host'.last = Returned("update_account", host.calls + 1, "Ok", FALSE)
    /\ queue' = queue
    /\ sent' = sent
    /\ UNCHANGED <<account, account_audit, slot, applied, worker>>

\* C5: an update_account call with is_startup, a configured floor and a slot
\* below the floor returns Ok at once, leaves the queue, the workers and the
\* tables untouched, and its update never gets past the filters; a call of a
\* selected account that is not of this kind (a startup update at or above the
\* floor, any update without is_startup, any update when no floor is
\* configured) is accepted by the channel or waits inside send.
C5_SafeSlotSkip ==
    /\ [](\A c \in account_calls : BelowFloor(c) => ~PastFilters(c))
    /\ [][account_calls' # account_calls =>
             /\ BelowFloor(NewCall) => ReturnsOkUntouched
             /\ (~BelowFloor(NewCall) /\ SelectedCall(NewCall) /\ ~AllWorkersExited) =>
                    \/ NewCall.id \in sent' /\ queue'[Len(queue')].id = NewCall.id
                    \/ host'.pc = "sending" /\ Unwrap(host'.item).item.id = NewCall.id
      ]_vars

\* With the floor at FilterFloor, a startup update at the floor has been
\* carried to the Sink and a startup update one slot below it was dropped.
C5_Witness ==
    /\ batch_starting_slot = Some(FilterFloor)
    /\ \E c \in account_calls :
           /\ c.is_startup
           /\ c.slot = FilterFloor
           /\ \E r \in account : r.write_version = c.id /\ r.slot = FilterFloor
    /\ \E c \in account_calls :
           /\ c.is_startup
           /\ c.slot = FilterFloor - 1
           /\ c.id \notin sent

\* C6: an update_account call for an account the configured selector does not
\* select, or made with no accounts selector configured, returns Ok at once and
\* leaves the queue, the workers and the tables untouched; its update never
\* gets past the filters, and every item the channel accepted is the update of
\* a selected account.
C6_OnlySelectedEnqueued ==
    /\ [](\A c \in account_calls : ~SelectedCall(c) => ~PastFilters(c))
    /\ [](\A id \in sent \cup QueueIds : \E c \in account_calls : c.id = id /\ SelectedCall(c))
    /\ [][(account_calls' # account_calls /\ ~SelectedCall(NewCall)) => ReturnsOkUntouched]_vars

\* Under a selector of the accounts owned by Pubkey3, a non-startup update of
\* an account with another owner was rejected, and an update of an account
\* owned by Pubkey3 is a row of table account.
C6_Witness ==
    /\ accounts_selector # None
    /\ \E c \in account_calls : ~c.is_startup /\ ~SelectedCall(c) /\ c.id \notin sent
    /\ \E c \in account_calls :
           /\ SelectedCall(c)
           /\ c.owner = Pubkey3
           /\ \E r \in account : r.write_version = c.id
    /\ host.pc = "idle"

(***************************************************************************)
(* Claims about shutdown, checked under SpecPipeline                       *)
(***************************************************************************)
\* join has set the exit flag and popped every handle
JoinReturned == exit_worker /\ host.pc # "joining"

\* C11: join sets the exit flag before it joins any worker, then takes the
\* handles one at a time, each only once its thread has returned; when join
\* has returned the worker list is empty and every worker thread has
\* returned, and on_unload has returned Ok, also when workers ended with Err.
C11_JoinShutdown ==
    /\ [](host.pc = "joining" => exit_worker)
    /\ [][workers' # workers =>
             /\ exit_worker
             /\ host.pc = "joining"
             /\ workers' = SubSeq(workers, 1, Len(workers) - 1)
             /\ worker[workers[Len(workers)]].pc = "exited"]_vars
    /\ [](JoinReturned => workers = <<>> /\ AllWorkersExited)
    /\ [](host.last.op = "on_unload" => host.last.result = "Ok")

\* join has returned Ok after one worker ended with an error and one without.
C11_Witness ==
    /\ JoinReturned
    /\ host.pc = "idle"
    /\ host.last.op = "on_unload"
    /\ host.last.result = "Ok"
    /\ \E w \in Workers : worker[w].result = "Err"
    /\ \E w \in Workers : worker[w].result = "Ok"

(***************************************************************************)
(* Claims about the hand-over of work items, checked under SpecPipeline    *)
(***************************************************************************)
\* The ids of the items a worker holds: the one in hand and the account
\* records in its batch buffer, which carry the id as write_version.
HeldIds(w) ==
    {it.id : it \in worker[w].item}
    \cup {worker[w].pending_account_updates[i].write_version :
             i \in 1..Len(worker[w].pending_account_updates)}

ReceivedIds == BagToSet(trace.received)

\* C12: every item the queue accepted is received at most once, and by one
\* worker: a receive gives the head of the queue to exactly one worker and
\* takes it out of the queue, no id is received twice, no two workers hold
\* the same item, and a record is written to the Sink by the one worker
\* that holds it.
C12_DequeuedAtMostOnce ==
    /\ [](\A id \in ReceivedIds : CopiesIn(id, trace.received) = 1)
    /\ [](ReceivedIds \subseteq sent /\ ReceivedIds \cap QueueIds = {})
    /\ [](\A w \in Workers :
             /\ HeldIds(w) \subseteq ReceivedIds
             /\ \A v \in Workers \ {w} : HeldIds(w) \cap HeldIds(v) = {})
    /\ [][trace'.received # trace.received =>
             /\ queue # <<>>
             /\ queue' = Tail(queue)
             /\ Head(queue).id \notin ReceivedIds
             /\ trace'.received = trace.received (+) SetToBag({Head(queue).id})
             /\ \E w \in Workers :
                    /\ worker[w].item = None
                    /\ worker'[w].item = Some(Head(queue))
                    /\ \A v \in Workers \ {w} : worker'[v] = worker[v]]_vars
    /\ [][applied' # applied =>
             \E w \in Workers :
                 /\ \A r \in applied' \ applied : r.write_version \in HeldIds(w)
                 /\ \A r \in applied' \ applied : r.write_version \notin HeldIds(w)'
                 /\ \A v \in Workers \ {w} : worker'[v] = worker[v]]_vars

\* Three items were received: one has been written to the Sink and the two
\* workers hold the other two at the same time.
C12_Witness ==
    /\ applied # {}
    /\ BagCardinality(trace.received) = 3
    /\ \A w \in Workers : worker[w].pc = "working" /\ IsSome(worker[w].item)

(***************************************************************************)
(* Delivery as a state machine: the loaded plugin of the pipeline after    *)
(* startup.  The host notifies account updates and the statuses a slot     *)
(* goes through, the workers connect, receive and apply, and the           *)
(* statements of the database may fail.  The threads are scheduled fairly: *)
(* a worker that can connect, receive or apply eventually does.            *)
(***************************************************************************)
\* The notifications of the host: one account, written again and again,
\* and the slot processed (with its parent) and confirmed (without).
DeliveryAccounts == {a \in HostAccounts : a.pubkey = Pubkey1}
DeliverySlotUpdates ==
    {[parent |-> Some(HostSlot - 1), status |-> "processed"],
     [parent |-> None, status |-> "confirmed"]}

NextDelivery ==
    \/ \E a \in DeliveryAccounts :
           UpdateAccount(ReplicaAccountInfo(a, host.calls + 1), HostSlot, FALSE)
    \/ \E u \in DeliverySlotUpdates : UpdateSlotStatus(HostSlot, u.parent, u.status)
    \/ SendResume
    \/ SendDisconnected
    \/ \E w \in Workers, ok \in BOOLEAN : WorkerConnect(w, ok)
    \/ \E w \in Workers : WorkerRecv(w)
    \/ \E w \in Workers, ok \in BOOLEAN : WorkerApply(w, ok)

DeliveryFairness ==
    \A w \in Workers :
        /\ WF_vars(\E ok \in BOOLEAN : WorkerConnect(w, ok))
        /\ WF_vars(WorkerRecv(w))
        /\ WF_vars(\E ok \in BOOLEAN : WorkerApply(w, ok))

\* A worker whose statement fails returns Err: panic_on_db_errors is off.
InitDelivery ==
    /\ OnLoad(PipelineConfig, FALSE, {})
    /\ panic_on_db_errors = FALSE

SpecDelivery == InitDelivery /\ [][NextDelivery]_vars /\ DeliveryFairness

(***************************************************************************)
(* Claims about delivery, checked under SpecDelivery                       *)
(***************************************************************************)
CallIds == 1..MaxCalls

\* Some worker is never gone: the process is not aborted and the thread never returns.
SomeWorkerStaysAlive == []~aborted /\ \E w \in Workers : [](worker[w].pc # "exited")

\* The account row of the pubkey is the record of call c (numbered id by
\* the host) or a newer one; the row of the slot has the status of call c
\* and, when c gave a parent, that parent.
AccountAppears(c) ==
    \E r \in account :
        /\ r.pubkey = c.pubkey
        /\ \/ r.slot > AsI64(c.slot)
           \/ r.slot = AsI64(c.slot) /\ r.write_version >= c.id

SlotAppears(c) ==
    \E x \in slot :
        /\ x.slot = AsI64(c.slot)
        /\ x.status = c.status
        /\ IsSome(c.parent) => x.parent = Some(AsI64(Unwrap(c.parent)))

Appears(id) ==
    \/ \E c \in account_calls : c.id = id /\ ~c.is_startup /\ AccountAppears(c)
    \/ \E c \in trace.slot_calls : c.id = id /\ SlotAppears(c)

\* The Sink operation of the item failed in the worker that received it.
ApplyFailed(id) == \E f \in trace.failed : f.stage = "apply" /\ f.id = id

AcceptedSlotCalls(sl) == {c \in trace.slot_calls : c.slot = sl /\ c.id \in sent}

SlotCallApplied(c) ==
    /\ c.id \in ReceivedIds
    /\ \A w \in Workers : c.id \notin HeldIds(w)
    /\ ~ApplyFailed(c.id)

LastSlotCall(sl) ==
    CHOOSE c \in AcceptedSlotCalls(sl) : \A d \in AcceptedSlotCalls(sl) : d.id <= c.id

\* C14: once every slot-status update the producer submitted for a slot
\* has been applied, the row of the slot has the status of the update
\* submitted last, whichever workers received the updates.
C14_LastStatusWins ==
    \A sl \in {HostSlot} :
        (/\ AcceptedSlotCalls(sl) # {}
         /\ \A c \in AcceptedSlotCalls(sl) : SlotCallApplied(c))
        => \E x \in slot : x.slot = AsI64(sl) /\ x.status = LastSlotCall(sl).status

(***************************************************************************)
(* Claims about the startup batch, checked under SpecPipeline              *)
(***************************************************************************)
\* Worker w executes the bulk insert of a full batch and the statement
\* succeeds: the startup account in hand fills the buffer.
BulkInsertBy(w) ==
    /\ worker[w].pc = "working"
    /\ Unwrap(worker[w].item).kind = "UpdateAccount"
    /\ Unwrap(worker[w].item).is_startup
    /\ Len(worker[w].pending_account_updates) = BatchSize - 1
    /\ worker'[w].pc = "idle"

Batch(w) == Append(worker[w].pending_account_updates, Unwrap(worker[w].item).account)

StoredIsOlder(old, r) ==
    \/ old.slot < r.slot
    \/ old.slot = r.slot /\ old.write_version < r.write_version

\* C15 as stated: every row of a bulk insert is written for its pubkey,
\* whatever the stored row is.
C15_BulkBypassesCheck ==
    [][\A w \in Workers : BulkInsertBy(w) =>
           \A i \in 1..BatchSize : Batch(w)[i] \in account']_vars

\* C15, amended: the bulk insert applies the conflict check to each of its
\* rows: a row is written when its pubkey has no row or an older one, and
\* otherwise the stored row stays.
C15_BulkKeepsCheck ==
    [][\A w \in Workers : BulkInsertBy(w) =>
           \A i \in 1..BatchSize :
               LET r == Batch(w)[i]
                   old == RowOf(account, r.pubkey)
               IN  IF old = {} \/ StoredIsOlder(Unwrap(old), r)
                   THEN RowOf(account', r.pubkey) = {r}
                   ELSE RowOf(account', r.pubkey) = old]_vars

\* Before the end of startup a statement has carried a startup record
\* that is not the row of its pubkey: the row is a newer one.
C15_Witness ==
    /\ ~is_startup_done
    /\ \E r \in applied :
           /\ \E c \in account_calls : c.id = r.write_version /\ c.is_startup
           /\ r \notin account
           /\ \E x \in account : x.pubkey = r.pubkey /\ StoredIsOlder(r, x)

(***************************************************************************)
(* Claims about discarded and repeated writes, checked under SpecSink      *)
(***************************************************************************)
\* The step is a single-row upsert that succeeds and that the merge rule
\* discards: the stored row of the pubkey is not older than the record.
DiscardedWrite ==
    /\ sink_op'.n = sink_op.n + 1
    /\ sink_op'.result = "Ok"
    /\ \E old \in RowOf(account, sink_op'.record.pubkey) : ~StoredIsOlder(old, sink_op'.record)

C17_UpsertIdempotent ==
    [][(/\ sink_op.kind = "upsert_account"
        /\ sink_op.result = "Ok"
        /\ sink_op'.n = sink_op.n + 1
        /\ sink_op'.result = "Ok"
        /\ sink_op'.record = sink_op.record)
       => account' = account]_vars

\* The table was empty, and the second upsert carried the record the
\* first had inserted: it changed no row and the record is the row.
C17_Witness ==
    /\ sink_op.n = 2
    /\ sink_op.result = "Ok"
    /\ sink_op.rows = 0
    /\ sink_op.record \in account

(***************************************************************************)
(* Claims about the transaction write version, checked under SpecPipeline  *)
(***************************************************************************)
\* The LogTransaction items on their way: in the channel, in the hand of
\* a worker, or with the host waiting in send.
LogItems ==
    {it \in Range(queue) \cup UNION {worker[w].item : w \in Workers}
            \cup {h.item : h \in host.item} : it.kind = "LogTransaction"}

\* The step is a log_transaction_info whose send takes the item or waits
\* with it, and this is the item.
LogItemSubmitted == host'.pc = "sending" \/ queue' # queue

SubmittedLogItem ==
    IF host'.pc = "sending" THEN Unwrap(host'.item).item ELSE queue'[Len(queue')]

\* C18: every log_transaction_info adds one to the counter, which starts
\* at 0, and its item carries the counter's new value: the values are
\* 1, 2, ... in the order of the calls, and no two transactions on their
\* way or in the table share one.
C18_TransactionWriteVersion ==
    /\ [][transaction_write_version' # transaction_write_version =>
             /\ transaction_write_version' = transaction_write_version + 1
             /\ LogItemSubmitted =>
                    /\ SubmittedLogItem.kind = "LogTransaction"
                    /\ SubmittedLogItem.transaction_info.write_version
                           = transaction_write_version'
                    /\ \A it \in LogItems : it.transaction_info.write_version
                                                < SubmittedLogItem.transaction_info.write_version
                    /\ \A x \in transaction :
                           x.write_version < SubmittedLogItem.transaction_info.write_version]_vars
    /\ [](\A it \in LogItems :
             /\ it.transaction_info.write_version >= 1
             /\ it.transaction_info.write_version <= transaction_write_version
             /\ \A x \in transaction : x.write_version # it.transaction_info.write_version
             /\ \A other \in LogItems :
                    other.id < it.id => other.transaction_info.write_version
                                            < it.transaction_info.write_version)
    /\ [](\A x \in transaction :
             x.write_version >= 1 /\ x.write_version <= transaction_write_version)

\* The first transaction is in the table with write_version 1, the second
\* is on its way with 2, and one call of the three logged none.
C18_Witness ==
    /\ transaction_write_version = 2
    /\ host.calls = 3
    /\ \E x \in transaction : x.write_version = 1
    /\ \E it \in LogItems : it.transaction_info.write_version = 2

(***************************************************************************)
(* Claims about failures in the workers, checked under SpecPipeline        *)
(***************************************************************************)
LiveWorkers == {w \in Workers : worker[w].pc # "exited"}

NewFailure == CHOOSE f \in trace'.failed \ trace.failed : TRUE

\* C19: a Sink operation that fails in a worker ends the worker with the
\* error, or with panic_on_db_errors the process: the worker takes no
\* further item.  A thread that has returned stays so, nothing runs after
\* abort(), and the set of live workers never grows.
C19_SinkErrorEndsWorker ==
    /\ [][(trace'.failed # trace.failed /\ NewFailure.stage # "connect") =>
             IF panic_on_db_errors
             THEN aborted'
             ELSE /\ ~aborted'
                  /\ worker'[NewFailure.worker].pc = "exited"
                  /\ worker'[NewFailure.worker].result = "Err"
                  /\ worker'[NewFailure.worker].item = None]_vars
    /\ [][~aborted]_vars
    /\ [][\A w \in Workers : worker[w].pc = "exited" => worker'[w] = worker[w]]_vars
    /\ [][LiveWorkers' \subseteq LiveWorkers]_vars
    /\ [](\A f \in trace.failed :
             \/ aborted
             \/ /\ ~panic_on_db_errors
                /\ worker[f.worker].pc = "exited"
                /\ worker[f.worker].result = "Err")

\* The upsert of an item failed in one worker, which has returned Err;
\* the other worker has since received the next item.
C19_Witness ==
    /\ ~aborted
    /\ \E f \in trace.failed :
           /\ f.stage = "apply"
           /\ worker[f.worker].pc = "exited"
           /\ worker[f.worker].result = "Err"
           /\ \E v \in Workers \ {f.worker} :
                  \E it \in worker[v].item : it.id > f.id

ConnectFailed(w) == \E f \in trace.failed : f.worker = w /\ f.stage = "connect"

\* C20: a worker whose connection fails is not counted in
\* initialized_worker_count, holds no item and makes no further step: the
\* process is aborted or the thread has returned Err.  The count is the
\* number of workers whose connection succeeded.
C20_FailedConnect ==
    /\ [](initialized_worker_count =
              Cardinality({w \in Workers : worker[w].pc # "connecting" /\ ~ConnectFailed(w)}))
    /\ [](\A w \in Workers : ConnectFailed(w) =>
             /\ HeldIds(w) = {}
             /\ IF panic_on_db_errors
                THEN aborted
                ELSE worker[w].pc = "exited" /\ worker[w].result = "Err")
    /\ [][\A w \in Workers : ConnectFailed(w) => worker'[w] = worker[w]]_vars
    /\ [][trace'.received # trace.received =>
             \E w \in Workers : worker'[w].item # worker[w].item /\ ~ConnectFailed(w)]_vars

\* One connection failed and its thread returned Err; the other worker
\* is the one counted, and it has received an item.
C20_Witness ==
    /\ ~aborted
    /\ initialized_worker_count = 1
    /\ \E w \in Workers :
           /\ ConnectFailed(w)
           /\ worker[w].pc = "exited"
           /\ \E v \in Workers \ {w} : IsSome(worker[v].item)

(***************************************************************************)
(* The load of the plugin as a state machine: the host calls on_load once  *)
(* on a new plugin with a config file, and the threads that on_load has    *)
(* spawned connect with the settings they cloned.                          *)
(***************************************************************************)
\* connect_to_db; connects tells whether Client::connect reaches the
\* database.  The certificate files the settings name can be read.
ConnectToDb(cfg, connects) ==
    IF ~IsSome(cfg.connection_str) /\ (cfg.host = None \/ cfg.user = None)
    THEN "ConfigurationError"
    ELSE IF cfg.use_ssl = Some(TRUE) /\ cfg.server_ca = None THEN "ConfigurationError"
    ELSE IF cfg.use_ssl = Some(TRUE) /\ cfg.client_cert = None THEN "ConfigurationError"
    ELSE IF cfg.use_ssl = Some(TRUE) /\ cfg.client_key = None THEN "ConfigurationError"
    ELSE IF connects THEN "Ok" ELSE "ConnectionError"

\* The config files of the drawn loads: one that is no JSON of the config
\* struct, and the files with every choice of the connection fields, of
\* skip_upsert_existing_accounts_at_startup and of panic_on_db_errors.
LoadFiles ==
    {[parsable |-> FALSE, connection |-> ConnectionByStr,
      skip_upsert_existing_accounts_at_startup |-> FALSE, panic_on_db_errors |-> FALSE]}
    \cup [parsable : {TRUE},
          connection : [connection_str : {None, Some("connection_str")},
                        host : {None, Some("host")}, user : {None, Some("user")},
                        use_ssl : {None, Some(FALSE), Some(TRUE)},
                        server_ca : {None, Some("ca.pem")},
                        client_cert : {None, Some("cert.pem")},
                        client_key : {None, Some("key.pem")}],
          skip_upsert_existing_accounts_at_startup : BOOLEAN,
          panic_on_db_errors : BOOLEAN]

\* on_load(file): the file is parsed; build_pararallel_postgres_client makes
\* a connection of its own for the startup floor when the file asks for it,
\* and then ParallelClient::new spawns the threads and returns Ok.  db_ok
\* tells whether the database accepts that connection and its statements.
OnLoadFile(file, db_ok) ==
    /\ client = None
    /\ host.pc = "idle" /\ host.calls = 0
    /\ LET result ==
               IF ~file.parsable THEN "ConfigFileReadError"
               ELSE IF file.skip_upsert_existing_accounts_at_startup
               THEN ConnectToDb(file.connection, db_ok)
               ELSE "Ok"
       IN  /\ host' = [host EXCEPT !.calls = 1,
                                   !.last = [op |-> "on_load", id |-> 1, result |-> result,
                                             blocked |-> FALSE, file |-> file]]
           /\ IF result = "Ok"
              THEN /\ client' = Some(file.connection)
                   /\ config' = PipelineConfig
                   /\ accounts_selector' =
                          Some(AccountsSelectorNew(Unwrap(PipelineConfig.accounts_selector)))
                   /\ transaction_selector' =
                          Some(TransactionSelectorNew(Unwrap(PipelineConfig.transaction_selector)))
                   /\ batch_starting_slot' =
                          BuildBatchStartingSlot(file.skip_upsert_existing_accounts_at_startup, slot)
                   /\ panic_on_db_errors' = file.panic_on_db_errors
                   /\ workers' = [i \in 1..NumWorkers |-> i]
                   /\ worker' = [w \in Workers |-> WorkerNew]
              ELSE UNCHANGED <<selVars, batch_starting_slot, panic_on_db_errors, workers, worker>>
    /\ UNCHANGED <<sel_query, sinkVars, slot, block, transaction, queue, exit_worker,
                   is_startup_done, startup_done_count, initialized_worker_count,
                   transaction_write_version, aborted, sent, account_calls, trace>>

\* The table slot of the database at load: empty, below the cushion, at
\* the cushion, above it, and with a slot of the upper half of u64 that is
\* stored as a negative number, alone or beside a small one.
LoadSlotTables ==
    {{[slot |-> AsI64(sl), parent |-> None, status |-> "rooted"] : sl \in S} :
         S \in {{}, {3}, {SAFE_BATCH_STARTING_SLOT_CUSHION},
                {7, SAFE_BATCH_STARTING_SLOT_CUSHION + FilterFloor},
                {2 ^ (U64_BITS - 1) + 5}, {3, 2 ^ (U64_BITS - 1) + 5}}}

\* GeyserPluginPostgres::new(): no config, no client, no selector; no thread
\* is spawned.
InitLoad ==
    /\ config = [accounts_selector |-> None, transaction_selector |-> None]
    /\ client = None
    /\ accounts_selector = None
    /\ transaction_selector = None
    /\ sel_query = NoQuery
    /\ SinkIdle
    /\ batch_starting_slot = None
    /\ slot \in LoadSlotTables
    /\ block = {}
    /\ transaction = {}
    /\ panic_on_db_errors = FALSE
    /\ queue = <<>>
    /\ exit_worker = FALSE
    /\ is_startup_done = FALSE
    /\ startup_done_count = 0
    /\ initialized_worker_count = 0
    /\ transaction_write_version = 0
    /\ workers = <<>>
    /\ worker = [w \in Workers |-> [WorkerNew EXCEPT !.pc = "unspawned"]]
    /\ NoHistory

\* A thread connects with the settings it cloned: its connect_to_db fails
\* where the one of on_load would.
NextLoad ==
    \/ \E file \in LoadFiles, db_ok \in BOOLEAN : OnLoadFile(file, db_ok)
    \/ \E w \in Workers, db_ok \in BOOLEAN :
           /\ IsSome(client)
           /\ WorkerConnect(w, ConnectToDb(Unwrap(client), db_ok) = "Ok")

SpecLoad == InitLoad /\ [][NextLoad]_vars

\* C21: a config file that cannot be parsed, or that has no connection
\* string together with a missing host or user, or use_ssl without
\* server_ca, client_cert or client_key, makes on_load return a
\* configuration error, and no worker thread has been spawned.
C21_ConfigurationErrorBeforeSpawn ==
    (/\ host.last.op = "on_load"
     /\ \/ ~host.last.file.parsable
        \/ ConnectToDb(host.last.file.connection, TRUE) = "ConfigurationError")
    => /\ host.last.result \in {"ConfigFileReadError", "ConfigurationError"}
       /\ client = None
       /\ workers = <<>>
       /\ \A w \in Workers : worker[w].pc = "unspawned"

(***************************************************************************)
(* Block metadata as a state machine: the host notifies blocks of two      *)
(* slots, one of them with two contents, and the workers apply them.       *)
(***************************************************************************)
BlockUpdates ==
    HostBlocks \cup
    {[slot |-> HostSlot, blockhash |-> "fork", rewards |-> <<"reward">>,
      block_time |-> None, block_height |-> None],
     [slot |-> HostSlot + 1, blockhash |-> "next", rewards |-> <<>>,
      block_time |-> Some(2), block_height |-> Some(2)]}

NextBlocks ==
    \/ \E b \in BlockUpdates : NotifyBlockMetadata(b)
    \/ SendResume
    \/ SendDisconnected
    \/ \E w \in Workers, ok \in BOOLEAN : WorkerConnect(w, ok)
    \/ \E w \in Workers : WorkerRecv(w)
    \/ \E w \in Workers, ok \in BOOLEAN : WorkerApply(w, ok)

SpecBlocks == InitPipeline /\ [][NextBlocks]_vars

\* Worker w applies the block item it holds and the statement succeeds.
BlockApplied(w) ==
    /\ worker[w].pc = "working"
    /\ Unwrap(worker[w].item).kind = "UpdateBlockMetadata"
    /\ worker'[w].pc = "idle"

\* C22: the table block never has two rows of one slot; only an applied
\* BlockMetadata update changes it, and after the update is applied the only
\* row of its slot carries the blockhash, rewards, block_time and
\* block_height of that update, whatever the row held before, while the rows
\* of the other slots are as they were.
C22_BlockUpsertBySlot ==
    /\ [](\A x, y \in block : x.slot = y.slot => x = y)
    /\ [][/\ block' # block => \E w \in Workers : BlockApplied(w)
          /\ \A w \in Workers :
                 BlockApplied(w) =>
                     LET it == Unwrap(worker[w].item)
                         b == it.block_info
                     IN  /\ [id |-> it.id, block_info |-> b] \in trace.block_calls
                         /\ {x \in block' : x.slot = b.slot} = {b}
                         /\ {x \in block' : x.slot # b.slot} = {x \in block : x.slot # b.slot}]_vars

\* Two updates of one slot with different contents have both been applied,
\* and the slot has one row.
C22_Witness ==
    \E c1, c2 \in trace.block_calls :
        /\ c1.id # c2.id
        /\ c1.block_info.slot = c2.block_info.slot
        /\ c1.block_info # c2.block_info
        /\ {c1.id, c2.id} \subseteq ReceivedIds
        /\ \A w \in Workers : {c1.id, c2.id} \cap HeldIds(w) = {}
        /\ ~ApplyFailed(c1.id) /\ ~ApplyFailed(c2.id)
        /\ Cardinality({x \in block : x.slot = c1.block_info.slot}) = 1

\* Worker w processes the startup account update it holds, whatever the
\* statement returns.
StartupUpdateBy(w) ==
    /\ worker[w].pc = "working"
    /\ Unwrap(worker[w].item).kind = "UpdateAccount"
    /\ Unwrap(worker[w].item).is_startup
    /\ \/ worker'[w].pc # "working"
       \/ Failure(w, "apply", Unwrap(worker[w].item).id) \in trace'.failed \ trace.failed

\* C23: a worker's buffer always holds fewer than batch_size records, in
\* the order the worker received them.  The startup update that makes the
\* buffered records batch_size many issues one bulk insert of exactly these
\* records in that order and leaves the buffer empty; a startup update that
\* leaves fewer is buffered and no statement touches the tables.
C23_BatchBuffer ==
    /\ [](\A w \in Workers :
              LET pending == worker[w].pending_account_updates
              IN  /\ Len(pending) < BatchSize
                  /\ \A i, j \in 1..Len(pending) :
                         i < j => pending[i].write_version < pending[j].write_version)
    /\ [][\A w \in Workers :
              StartupUpdateBy(w) =>
                  IF Len(Batch(w)) = BatchSize
                  THEN /\ worker'[w].pending_account_updates = <<>>
                       /\ \E ok \in BOOLEAN :
                              LET res == BulkAccountInsertStmt(account, account_audit, Batch(w), ok)
                              IN  account' = res.account /\ account_audit' = res.audit
                  ELSE /\ worker'[w].pending_account_updates = Batch(w)
                       /\ account' = account
                       /\ account_audit' = account_audit]_vars

\* Before the end of startup a bulk insert has carried batch_size startup
\* records and left the worker's buffer empty.
C23_Witness ==
    /\ ~is_startup_done
    /\ Cardinality({r \in applied : \E c \in account_calls :
                                        c.id = r.write_version /\ c.is_startup}) = BatchSize
    /\ \E w \in Workers : worker[w].pc = "idle" /\ worker[w].pending_account_updates = <<>>

(***************************************************************************)
(* The end-of-startup barrier as a state machine: the host notifies        *)
(* updates of one account and the end of startup, which it may notify      *)
(* again, and the workers connect, receive, apply and flush.  Every thread *)
(* that can take a step eventually takes one.                              *)
(***************************************************************************)
NextBarrier ==
    \/ \E a \in DeliveryAccounts, is_startup \in StartupFlags :
           UpdateAccount(ReplicaAccountInfo(a, host.calls + 1), HostSlot, is_startup)
    \/ NotifyEndOfStartup
    \/ SendResume
    \/ SendDisconnected
    \/ EosQueueEmpty
    \/ EosLoadDone
    \/ EosCompare
    \/ \E w \in Workers, ok \in BOOLEAN : WorkerConnect(w, ok)
    \/ \E w \in Workers : WorkerRecv(w)
    \/ \E w \in Workers, ok \in BOOLEAN : WorkerApply(w, ok)
    \/ \E w \in Workers : \E out \in FlushOutcomes(worker[w]) : WorkerFlush(w, out)

BarrierFairness ==
    /\ DeliveryFairness
    /\ \A w \in Workers : WF_vars(\E out \in FlushOutcomes(worker[w]) : WorkerFlush(w, out))
    /\ WF_vars(EosQueueEmpty)
    /\ WF_vars(EosLoadDone)
    /\ WF_vars(EosCompare)

SpecBarrier == InitDelivery /\ [][NextBarrier]_vars /\ BarrierFairness

\* The host is inside notify_end_of_startup; past its first loop.
InBarrier == host.pc \in {"eos_wait_queue", "eos_wait_workers", "eos_compare"}
PastQueueWait == host.pc \in {"eos_wait_workers", "eos_compare"}

\* C24: is_startup_done is false until a call of notify_end_of_startup has
\* left its first loop; the only step that changes it is the one in which
\* that call sees the queue empty, which sets it; no step resets it; and a
\* call that is at its counter loop has set it.
C24_StartupDoneFlag ==
    /\ [](is_startup_done => PastQueueWait \/ host.eos = "returned")
    /\ [](PastQueueWait => is_startup_done)
    /\ [][/\ is_startup_done => is_startup_done'
          /\ is_startup_done' # is_startup_done =>
                 /\ host.pc = "eos_wait_queue"
                 /\ queue = <<>>
                 /\ host'.pc = "eos_wait_workers"]_vars

\* The flag is set while the first call is still waiting for the workers.
C24_Witness ==
    /\ is_startup_done
    /\ host.eos = "called"
    /\ PastQueueWait
    /\ sent # {}

\* C25: startup_done_count <= initialized_worker_count <= N in every state.
\* The initialized count grows by one, in the step in which a worker's
\* connection succeeds.  The startup-done count is the number of workers
\* that have counted themselves done, and it grows by one, in the step in
\* which a worker that sees is_startup_done and has not counted itself
\* completes its flush: its buffered records have been carried by upserts,
\* its buffered slots have rooted rows, and both buffers are empty.
C25_WorkerCounters ==
    /\ [](/\ startup_done_count <= initialized_worker_count
          /\ initialized_worker_count <= NumWorkers
          /\ startup_done_count = Cardinality({w \in Workers : worker[w].is_startup_done}))
    /\ [][initialized_worker_count' # initialized_worker_count =>
              /\ initialized_worker_count' = initialized_worker_count + 1
              /\ \E w \in Workers : worker[w].pc = "connecting" /\ worker'[w].pc = "idle"]_vars
    /\ [][startup_done_count' # startup_done_count =>
              /\ startup_done_count' = startup_done_count + 1
              /\ is_startup_done
              /\ \E w \in Workers :
                     /\ ~worker[w].is_startup_done
                     /\ worker'[w].is_startup_done
                     /\ worker'[w].pending_account_updates = <<>>
                     /\ worker'[w].slots_at_startup = {}
                     /\ Range(worker[w].pending_account_updates) \subseteq applied'
                     /\ \A sl \in worker[w].slots_at_startup :
                            \E x \in slot' : x.slot = AsI64(sl) /\ x.status = "rooted"]_vars

\* One of two initialized workers has flushed a buffered record and its
\* slot and counted itself done; the other has not.
C25_Witness ==
    /\ initialized_worker_count = 2
    /\ startup_done_count = 1
    /\ \E x \in slot : x.status = "rooted"
    /\ \E r \in applied : \E c \in account_calls : c.id = r.write_version /\ c.is_startup

\* No worker that initialized has ended on a Sink error, and some worker
\* is alive whenever the queue holds an item.
WorkersStayAlive ==
    /\ [](\A f \in trace.failed : f.stage = "connect")
    /\ [](queue # <<>> => \E w \in Workers : worker[w].pc # "exited")

SecondCall == host.eos = "returned" /\ InBarrier

\* C26 as stated: under fair scheduling and with the workers staying alive,
\* a call of notify_end_of_startup eventually returns, and a call made
\* after the first has returned never finds a loop condition true: the
\* queue is empty when it looks, and the counters it compares are equal.
C26_SecondCallNeverWaits ==
    WorkersStayAlive =>
        /\ [](InBarrier => <>(host.pc = "idle"))
        /\ [](SecondCall /\ host.pc = "eos_wait_queue" => queue = <<>>)
        /\ [](SecondCall /\ host.pc = "eos_compare" =>
                  BarrierOpen(host.done_read, initialized_worker_count))

\* C26, amended: under fair scheduling and with the workers staying alive,
\* every call of notify_end_of_startup eventually returns, the first and
\* any later one.
C26_BarrierReturns ==
    WorkersStayAlive => [](InBarrier => <>(host.pc = "idle"))

\* A second call has returned: an account update was sent after the first
\* call and before the call that returned last, and no worker has failed.
C26_Witness ==
    /\ host.pc = "idle"
    /\ host.last.op = "notify_end_of_startup"
    /\ trace.failed = {}
    /\ \E c \in account_calls : c.id \in sent \ host.eos_ids /\ c.id < host.last.id

\* Worker w incremented the initialized count and its thread has returned
\* Err without incrementing the startup-done count.
DeadUncounted(w) ==
    /\ worker[w].pc = "exited"
    /\ worker[w].result = "Err"
    /\ ~ConnectFailed(w)
    /\ ~worker[w].is_startup_done

\* C27: from a state in which notify_end_of_startup is running and a worker
\* that initialized has exited on a Sink error without counting itself
\* done, the call is running for ever; and from a state in which the call
\* waits for the queue, the queue holds an item and every worker has exited,
\* the call waits for the queue for ever.  It returns nothing, no error.
C27_BarrierNeverReturns ==
    /\ [](InBarrier /\ (\E w \in Workers : DeadUncounted(w)) => []InBarrier)
    /\ [](host.pc = "eos_wait_queue" /\ queue # <<>> /\ Disconnected =>
              [](host.pc = "eos_wait_queue"))

\* The call polls the counters: one worker has counted itself done, the
\* other initialized and exited on a Sink error before it did.
C27_Witness ==
    /\ PastQueueWait
    /\ initialized_worker_count = 2
    /\ startup_done_count = 1
    /\ \E w \in Workers : DeadUncounted(w)

\* Worker w's thread returns Ok in this step.
ExitsOk(w) ==
    /\ worker[w].pc # "exited"
    /\ worker'[w].pc = "exited"
    /\ worker'[w].result = "Ok"

\* Worker w holds the item of this id in hand, or in its batch buffer.
InHand(w, id) == \E it \in worker[w].item : it.id = id
Buffered(w, id) ==
    \E i \in 1..Len(worker[w].pending_account_updates) :
        worker[w].pending_account_updates[i].write_version = id

\* C28: a thread returns Ok only with the exit flag set, the
\* queue empty and no item in hand; and when on_unload has returned and no
\* worker has failed, every item that was in the queue at the call has been
\* received and is held by no worker, neither in hand nor in a buffer.
C28_ShutdownApplies ==
    /\ [][\A w \in Workers :
              ExitsOk(w) => exit_worker /\ queue = <<>> /\ worker[w].item = None]_vars
    /\ [](JoinReturned /\ trace.failed = {} =>
              \A id \in host.unload_ids :
                  /\ id \in ReceivedIds
                  /\ \A w \in Workers : ~InHand(w, id) /\ ~Buffered(w, id))

(***************************************************************************)
(* The pipeline with config.threads drawn: one worker thread or two.  A    *)
(* thread beyond config.threads is never spawned.                          *)
(***************************************************************************)
InitPool ==
    /\ OnLoadSelectors(PipelineConfig)
    /\ sel_query = NoQuery
    /\ SinkIdle
    /\ batch_starting_slot = None
    /\ slot = {}
    /\ block = {}
    /\ transaction = {}
    /\ panic_on_db_errors = FALSE
    /\ queue = <<>>
    /\ exit_worker = FALSE
    /\ is_startup_done = FALSE
    /\ startup_done_count = 0
    /\ initialized_worker_count = 0
    /\ transaction_write_version = 0
    /\ \E threads \in 1..NumWorkers :
           /\ workers = [i \in 1..threads |-> i]
           /\ worker = [w \in Workers |-> IF w <= threads THEN WorkerNew
                                          ELSE [WorkerNew EXCEPT !.pc = "unspawned"]]
    /\ NoHistory

SpecPool == InitPool /\ [][NextPipeline]_vars

\* SimplePostgresClient::notify_end_of_startup on a client of its own: the
\* tables and buffers st after flush_buffered_writes, no statement failing.
SequentialFlush(st) ==
    LET up == UpsertAll(st.account, st.audit, st.pending)
    IN  [st EXCEPT !.pending = <<>>, !.slots = {}, !.account = up.account,
                   !.audit = up.audit, !.slot = UpsertSlotsRooted(st.slot, st.slots)]

\* The PostgresClient calls of the items made one after the other on one
\* SimplePostgresClient, with no queue and no statement failing.
RECURSIVE Sequential(_, _)
Sequential(st, items) ==
    IF items = <<>>
    THEN st
    ELSE LET it == Head(items)
             pending == Append(st.pending, it.account)
             next ==
                 CASE it.kind = "UpdateAccount" /\ ~it.is_startup ->
                          LET res == UpsertAccountInternal(st.account, st.audit, it.account, TRUE)
                          IN  [st EXCEPT !.account = res.account, !.audit = res.audit]
                   [] it.kind = "UpdateAccount" /\ it.is_startup /\ BatchFull(pending) ->
                          LET res == BulkAccountInsertStmt(st.account, st.audit, pending, TRUE)
                          IN  [st EXCEPT !.pending = <<>>,
                                         !.slots = @ \cup {AsU64(it.account.slot)},
                                         !.account = res.account, !.audit = res.audit]
                   [] it.kind = "UpdateAccount" /\ it.is_startup /\ ~BatchFull(pending) ->
                          [st EXCEPT !.pending = pending,
                                     !.slots = @ \cup {AsU64(it.account.slot)}]
                   [] it.kind = "UpdateSlot" ->
                          [st EXCEPT !.slot = UpsertSlotStatusInternal(@, it.slot, it.parent,
                                                                       it.slot_status)]
                   [] it.kind = "UpdateBlockMetadata" ->
                          [st EXCEPT !.block = UpsertBlockStmt(@, it.block_info)]
                   [] it.kind = "LogTransaction" ->
                          [st EXCEPT !.transaction = InsertTransaction(@, it.transaction_info)]
         IN  Sequential(next, Tail(items))

\* The Sink and the buffers of the one worker of a single-threaded pool.
PipelineSink ==
    [pending |-> worker[1].pending_account_updates, slots |-> worker[1].slots_at_startup,
     account |-> account, audit |-> account_audit, slot |-> slot, block |-> block,
     transaction |-> transaction]

\* The reference: the items in the order they were submitted, with the
\* end-of-startup flush where the host called it, after the items it had
\* submitted before.
SequentialSink ==
    LET empty == [pending |-> <<>>, slots |-> {}, account |-> {}, audit |-> EmptyBag,
                  slot |-> {}, block |-> {}, transaction |-> {}]
        before == SelectSeq(trace.dequeued, LAMBDA it : it.id \in host.eos_ids)
        after == SelectSeq(trace.dequeued, LAMBDA it : it.id \notin host.eos_ids)
    IN  IF worker[1].is_startup_done
        THEN Sequential(SequentialFlush(Sequential(empty, before)), after)
        ELSE Sequential(empty, trace.dequeued)

SingleWorker == \A w \in Workers \ {1} : worker[w].pc = "unspawned"

Increasing(ids) == \A i, j \in 1..Len(ids) : i < j => ids[i] < ids[j]

\* C29: the items leave the queue in the order the host submitted them
\* (the ids are the numbers of the host's calls): those taken and those
\* queued are each in rising order and every taken one precedes every
\* queued one.  A worker takes the item at the head only with no item in
\* hand.  With one worker thread, whenever the worker holds no item and no
\* statement has failed, the tables and its buffers are those of the
\* submitted items applied in order on one client with no queue.
C29_FifoAndSequential ==
    /\ [](/\ Increasing([i \in 1..Len(trace.dequeued) |-> trace.dequeued[i].id])
          /\ Increasing([i \in 1..Len(queue) |-> queue[i].id])
          /\ \A i \in 1..Len(trace.dequeued), j \in 1..Len(queue) :
                 trace.dequeued[i].id < queue[j].id)
    /\ [][trace'.dequeued # trace.dequeued =>
              /\ trace'.dequeued = Append(trace.dequeued, Head(queue))
              /\ \E w \in Workers :
                     worker[w].item = None /\ worker'[w].item = Some(Head(queue))]_vars
    /\ [](SingleWorker /\ worker[1].item = None /\ trace.failed = {} =>
              PipelineSink = SequentialSink)

\* One worker thread has applied three items, a startup account update
\* among them, and has flushed: the update's slot is rooted.
C29_Witness ==
    /\ SingleWorker
    /\ trace.failed = {}
    /\ Len(trace.dequeued) >= 2
    /\ worker[1].item = None
    /\ worker[1].is_startup_done
    /\ \E x \in slot : x.status = "rooted"
    /\ \E x \in account : TRUE

\* Worker w ends its end-of-startup flush with every statement done.
FlushedBy(w) == ~worker[w].is_startup_done /\ worker'[w].is_startup_done

\* C30: a worker that processes a startup account update leaves the table
\* of slots as it is and adds the update's slot to its set (a slot already
\* in the set is there once).  The flush of a worker, every statement
\* succeeding, leaves for each slot of the set one row with status rooted,
\* with no parent unless a row of the slot held one before, leaves the rows
\* of all other slots as they were, and leaves the set empty.
C30_StartupSlotsFlushedRooted ==
    [][\A w \in Workers :
          /\ StartupUpdateBy(w) =>
                /\ slot' = slot
                /\ worker'[w].slots_at_startup =
                       worker[w].slots_at_startup
                           \cup {AsU64(Unwrap(worker[w].item).account.slot)}
          /\ FlushedBy(w) =>
                LET S == worker[w].slots_at_startup
                    keys == {AsI64(sl) : sl \in S}
                IN  /\ \A sl \in S :
                           {x \in slot' : x.slot = AsI64(sl)} =
                               {[slot |-> AsI64(sl),
                                 parent |-> IF \E x \in slot : x.slot = AsI64(sl)
                                            THEN (CHOOSE x \in slot : x.slot = AsI64(sl)).parent
                                            ELSE None,
                                 status |-> "rooted"]}
                    /\ {x \in slot' : x.slot \notin keys} = {x \in slot : x.slot \notin keys}
                    /\ worker'[w].slots_at_startup = {}]_vars

\* One worker took two startup account updates of two slots, the other
\* worker none, and the one has flushed: the two slots are rooted without
\* parent, each in one row.
C30_Witness ==
    \E w \in Workers :
        /\ worker[w].is_startup_done
        /\ worker[w].slots_at_startup = {}
        /\ worker[w].item = None
        /\ \A v \in Workers \ {w} :
               /\ ~worker[v].is_startup_done
               /\ worker[v].slots_at_startup = {}
               /\ worker[v].item = None
        /\ Len(trace.dequeued) = 2
        /\ \A i \in 1..2 : trace.dequeued[i].kind = "UpdateAccount" /\ trace.dequeued[i].is_startup
        /\ trace.dequeued[1].account.slot # trace.dequeued[2].account.slot
        /\ \A i \in 1..2 :
               [slot |-> trace.dequeued[i].account.slot, parent |-> None, status |-> "rooted"]
                   \in slot
        /\ Cardinality({x \in slot : x.slot \in FilterSlots}) = 2

(***************************************************************************)
(* The pipeline with the token indexes enabled: the host notifies a token  *)
(* account and an account of another program, at startup or after, and    *)
(* the end of startup; statements may fail.                                *)
(***************************************************************************)
\* A token account: mint Pubkey2 at offset 0, owner Pubkey3 at offset 32
TokenAccountData ==
    Pubkey2 \o Pubkey3 \o Repeat(0, SPL_TOKEN_ACCOUNT_LENGTH - 2 * PUBKEY_BYTES)

IndexAccounts ==
    {[pubkey |-> Pubkey1, owner |-> TOKEN_PROGRAM_ID, lamports |-> 50,
      data |-> TokenAccountData],
     [pubkey |-> Pubkey2, owner |-> Pubkey1, lamports |-> 50, data |-> <<>>]}

\* config.index_token_owner and config.index_token_mint of the drawn runs
IndexConfigs == {<<TRUE, FALSE>>, <<FALSE, TRUE>>, <<TRUE, TRUE>>}

InitIndex ==
    /\ OnLoadSelectors(PipelineConfig)
    /\ sel_query = NoQuery
    /\ SinkIdle
    /\ batch_starting_slot = None
    /\ slot = {}
    /\ block = {}
    /\ transaction = {}
    /\ panic_on_db_errors = FALSE
    /\ queue = <<>>
    /\ exit_worker = FALSE
    /\ is_startup_done = FALSE
    /\ startup_done_count = 0
    /\ initialized_worker_count = 0
    /\ transaction_write_version = 0
    /\ workers = [i \in 1..NumWorkers |-> i]
    /\ \E idx \in IndexConfigs :
           worker = [w \in Workers |-> [WorkerNew EXCEPT !.index_token_owner = idx[1],
                                                         !.index_token_mint = idx[2]]]
    /\ NoHistory

NextIndex ==
    \/ \E a \in IndexAccounts, is_startup \in StartupFlags :
           UpdateAccount(ReplicaAccountInfo(a, host.calls + 1), HostSlot, is_startup)
    \/ host.eos = "none" /\ NotifyEndOfStartup
    \/ SendResume \/ SendDisconnected \/ EosQueueEmpty \/ EosLoadDone \/ EosCompare
    \/ \E w \in Workers, ok \in BOOLEAN : WorkerConnect(w, ok)
    \/ \E w \in Workers : WorkerRecv(w)
    \/ \E w \in Workers, ok \in BOOLEAN : WorkerApply(w, ok)
    \/ \E w \in Workers : \E out \in FlushOutcomes(worker[w]) : WorkerFlush(w, out)

SpecIndex == InitIndex /\ [][NextIndex]_vars

\* Worker w's flush is left early by a failing statement.
FlushFailedBy(w) == Failure(w, "flush", 0) \in trace'.failed \ trace.failed

\* C31: the flush of a worker that returns Ok leaves the account tables as
\* the single-row upsert of each buffered record, taken in buffer order,
\* leaves them, and leaves the worker's account buffer, slot set and two
\* index buffers empty; a flush left early has applied the records before
\* the failing one in the same way.
C31_FlushAppliesBufferInOrder ==
    [][\A w \in Workers :
          LET pending == worker[w].pending_account_updates
              after(k) == UpsertAll(account, account_audit, SubSeq(pending, 1, k))
          IN  /\ FlushedBy(w) =>
                    /\ account' = after(Len(pending)).account
                    /\ account_audit' = after(Len(pending)).audit
                    /\ worker'[w].pending_account_updates = <<>>
                    /\ worker'[w].slots_at_startup = {}
                    /\ worker'[w].pending_token_owner_index = <<>>
                    /\ worker'[w].pending_token_mint_index = <<>>
              /\ FlushFailedBy(w) =>
                    \E k \in 0..Len(pending) :
                        /\ account' = after(k).account
                        /\ account_audit' = after(k).audit]_vars

\* The one work item of the run, a startup update of the token account, went
\* to a worker that buffered it with its index entry; the flush wrote its
\* row and no worker holds anything.
C31_Witness ==
    /\ Len(trace.dequeued) = 1
    /\ trace.dequeued[1].kind = "UpdateAccount"
    /\ trace.dequeued[1].is_startup
    /\ IsSome(TokenAccountKey(trace.dequeued[1].account, SPL_TOKEN_ACCOUNT_OWNER_OFFSET))
    /\ account = {trace.dequeued[1].account}
    /\ \E w \in Workers :
           /\ worker[w].is_startup_done
           /\ worker[w].index_token_owner
    /\ \A w \in Workers :
           /\ worker[w].item = None
           /\ worker[w].pending_account_updates = <<>>
           /\ worker[w].slots_at_startup = {}
           /\ worker[w].pending_token_owner_index = <<>>
           /\ worker[w].pending_token_mint_index = <<>>

\* Worker w processes the account update it holds, not a startup one,
\* whatever the statement returns.
LiveUpdateBy(w) ==
    /\ worker[w].pc = "working"
    /\ Unwrap(worker[w].item).kind = "UpdateAccount"
    /\ ~Unwrap(worker[w].item).is_startup
    /\ \/ worker'[w].pc # "working"
       \/ Failure(w, "apply", Unwrap(worker[w].item).id) \in trace'.failed \ trace.failed

\* C32: a worker that processes an account update with is_startup false
\* leaves its batch buffer and slot set as they are, and the account tables
\* are those of one single-row upsert of the record (unchanged when the
\* statement fails).  A worker that processes one with is_startup true adds
\* the slot to its set and appends the record to its buffer; while the
\* buffer is not full the account tables stay as they are, and a full
\* buffer goes to the bulk statement and is emptied.
C32_StartupFlagSelectsPath ==
    [][\A w \in Workers :
          LET acc == Unwrap(worker[w].item).account
              failed == Failure(w, "apply", Unwrap(worker[w].item).id) \in trace'.failed
              single == UpsertAccountInternal(account, account_audit, acc, TRUE)
              pending == Append(worker[w].pending_account_updates, acc)
              bulk == BulkAccountInsertStmt(account, account_audit, pending, ~failed)
          IN  /\ LiveUpdateBy(w) =>
                    /\ worker'[w].pending_account_updates = worker[w].pending_account_updates
                    /\ worker'[w].slots_at_startup = worker[w].slots_at_startup
                    /\ account' = IF failed THEN account ELSE single.account
                    /\ account_audit' = IF failed THEN account_audit ELSE single.audit
              /\ StartupUpdateBy(w) =>
                    /\ worker'[w].slots_at_startup =
                           worker[w].slots_at_startup \cup {AsU64(acc.slot)}
                    /\ IF Len(pending) < BatchSize
                       THEN /\ worker'[w].pending_account_updates = pending
                            /\ account' = account
                            /\ account_audit' = account_audit
                       ELSE /\ worker'[w].pending_account_updates = <<>>
                            /\ account' = bulk.account
                            /\ account_audit' = bulk.audit]_vars

\* Two account updates were taken, one at startup and one not: the startup
\* one lies in a worker's buffer with its slot in the set, the other one is
\* the row of the table.
C32_Witness ==
    /\ Len(trace.dequeued) = 2
    /\ \A i \in 1..2 : trace.dequeued[i].kind = "UpdateAccount"
    /\ \E i, j \in 1..2 :
           /\ trace.dequeued[i].is_startup
           /\ ~trace.dequeued[j].is_startup
           /\ account = {trace.dequeued[j].account}
           /\ \E w \in Workers :
                  /\ worker[w].pending_account_updates = <<trace.dequeued[i].account>>
                  /\ worker[w].slots_at_startup = {AsU64(trace.dequeued[i].account.slot)}
    /\ \A w \in Workers : worker[w].item = None

\* The highest slot of the table as the database orders it, or 0
HighestStored ==
    IF slot = {} THEN 0
    ELSE AsU64(CHOOSE m \in {x.slot : x \in slot} : \A x \in slot : x.slot <= m)

\* Slots of account updates: the least, small ones, the cushion, the greatest
LoadSlots == {0, 1, SAFE_BATCH_STARTING_SLOT_CUSHION, 2 ^ U64_BITS - 1}

\* C33: after an on_load that returned Ok, the floor is absent when the file
\* does not ask to skip, and else it is S - K, or 0 when S <= K, for S the
\* highest slot of table slot (0 for the empty table) and K the cushion.
\* With no floor, or with S <= K, no account update of any slot is below the
\* floor, at startup or after.
C33_SafeSlotFloor ==
    (host.last.op = "on_load" /\ host.last.result = "Ok") =>
        LET S == HighestStored
            K == SAFE_BATCH_STARTING_SLOT_CUSHION
        IN  /\ batch_starting_slot =
                   IF host.last.file.skip_upsert_existing_accounts_at_startup
                   THEN Some(IF S <= K THEN 0 ELSE S - K)
                   ELSE None
            /\ (~host.last.file.skip_upsert_existing_accounts_at_startup \/ S <= K) =>
                   \A sl \in LoadSlots, is_startup \in BOOLEAN :
                       ~BelowStartingSlot(batch_starting_slot, sl, is_startup)

\* on_load with the skip flag on a database whose highest slot is the
\* cushion itself: the floor is 0.
C33_Witness ==
    /\ host.last.op = "on_load"
    /\ host.last.result = "Ok"
    /\ host.last.file.skip_upsert_existing_accounts_at_startup
    /\ HighestStored = SAFE_BATCH_STARTING_SLOT_CUSHION
    /\ batch_starting_slot = Some(0)

(***************************************************************************)
(* Transaction notifications as a state machine: plugins loaded without a  *)
(* transaction selector or with one of several, the host notifies vote and *)
(* other transactions that mention Pubkey1, and the workers log them.      *)
(***************************************************************************)
\* The transaction_selector section of the drawn config files
TransactionSections ==
    {None} \cup {Some([mentions |-> m]) : m \in {<<>>, <<AllVotes>>, <<Key1>>, <<Key2>>, <<Star>>}}

InitTransactions ==
    /\ \E section \in TransactionSections :
           OnLoad([accounts_selector |-> None, transaction_selector |-> section], FALSE, {})
    /\ panic_on_db_errors = FALSE

NextTransactions ==
    \/ \E t \in HostTransactions : NotifyTransaction(t, HostSlot)
    \/ SendResume
    \/ SendDisconnected
    \/ \E w \in Workers, ok \in BOOLEAN : WorkerConnect(w, ok)
    \/ \E w \in Workers : WorkerRecv(w)
    \/ \E w \in Workers, ok \in BOOLEAN : WorkerApply(w, ok)

SpecTransactions == InitTransactions /\ [][NextTransactions]_vars

\* The transaction selector is configured and selects transaction t.
SelectedTransaction(t) ==
    /\ IsSome(transaction_selector)
    /\ is_transaction_selected(Unwrap(transaction_selector), t.is_vote, t.account_keys)

\* C34: a notify_transaction call for a transaction that the configured
\* selector selects adds one to the write_version counter and hands one
\* LogTransaction item to the channel (queued, waiting inside send, or
\* refused by a channel without receivers); a call for any other
\* transaction, or with no selector configured, returns Ok and leaves the
\* queue and the counter as they were.
C34_FilteredTransactionsFree ==
    [][\A t \in HostTransactions :
          NotifyTransaction(t, HostSlot) =>
              IF SelectedTransaction(t)
              THEN /\ transaction_write_version' = transaction_write_version + 1
                   /\ \/ /\ Len(queue') = Len(queue) + 1
                         /\ queue' = Append(queue, queue'[Len(queue')])
                         /\ queue'[Len(queue')].kind = "LogTransaction"
                         /\ queue'[Len(queue')].id = host.calls + 1
                      \/ /\ host'.pc = "sending"
                         /\ Unwrap(host'.item).item.kind = "LogTransaction"
                         /\ queue' = queue
                      \/ /\ Disconnected
                         /\ host'.last.result # "Ok"
                         /\ queue' = queue
              ELSE /\ transaction_write_version' = transaction_write_version
                   /\ queue' = queue
                   /\ sent' = sent
                   /\ host'.pc = "idle"
                   /\ host'.last = Returned("log_transaction_info", host.calls + 1, "Ok", FALSE)
      ]_vars

\* Under a selector of the votes, a vote is in the table with write_version
\* 1 after two calls: the other call, for a transaction that is no vote,
\* took no write_version.
C34_Witness ==
    /\ IsSome(transaction_selector)
    /\ ~Unwrap(transaction_selector).select_all_transactions
    /\ host.calls = 2
    /\ host.pc = "idle"
    /\ transaction_write_version = 1
    /\ \E x \in transaction : x.write_version = 1 /\ x.is_vote
    /\ queue = <<>>

\* Worker w's startup account update fills its buffer and the bulk insert fails.
BulkInsertFailedBy(w) ==
    /\ StartupUpdateBy(w)
    /\ BatchFull(Append(worker[w].pending_account_updates, Unwrap(worker[w].item).account))
    /\ Failure(w, "apply", Unwrap(worker[w].item).id) \in trace'.failed \ trace.failed

\* The startup account updates whose processing failed in worker w
FailedStartupIds(w) ==
    {f.id : f \in {g \in trace.failed : g.worker = w /\ g.stage = "apply"}}
        \cap {c.id : c \in {d \in account_calls : d.is_startup}}

\* C35: when the bulk insert of a full buffer fails, the worker gets the
\* error (its thread returns Err, or the process is aborted), no row of the
\* batch is written, and the buffer is empty.  A worker in which a startup
\* update has failed keeps an empty buffer, and the failed update is never
\* applied.
C35_FailedBatchDropped ==
    /\ [][\A w \in Workers :
             BulkInsertFailedBy(w) =>
                 /\ worker'[w].pending_account_updates = <<>>
                 /\ account' = account
                 /\ account_audit' = account_audit
                 /\ applied' = applied
                 /\ IF panic_on_db_errors THEN aborted'
                    ELSE worker'[w].pc = "exited" /\ worker'[w].result = "Err"]_vars
    /\ [](\A w \in Workers :
             FailedStartupIds(w) # {} =>
                 /\ worker[w].pending_account_updates = <<>>
                 /\ \A r \in applied : r.write_version \notin FailedStartupIds(w))

\* One worker took two startup account updates and the bulk insert of the
\* two failed: the table is empty, and so is its buffer.
C35_Witness ==
    \E w \in Workers :
        /\ FailedStartupIds(w) # {}
        /\ worker[w].pending_account_updates = <<>>
        /\ worker[w].slots_at_startup # {}
        /\ \A v \in Workers \ {w} :
               /\ worker[v].item = None
               /\ worker[v].slots_at_startup = {}
        /\ Len(trace.dequeued) = 2
        /\ \A i \in 1..2 : trace.dequeued[i].kind = "UpdateAccount" /\ trace.dequeued[i].is_startup
        /\ account = {}

\* Worker w applies the slot update it holds and the statement succeeds.
SlotUpdateBy(w) ==
    /\ worker[w].pc = "working"
    /\ Unwrap(worker[w].item).kind = "UpdateSlot"
    /\ worker'[w].pc = "idle"

\* C36: a slot update that a worker applies leaves exactly one row of its
\* slot, with the update's status, and leaves every other row as it was.
\* With a parent the row has that parent; without one the row keeps the
\* parent it had, and a new row has none.
C36_SlotUpsertParent ==
    [][\A w \in Workers :
          SlotUpdateBy(w) =>
              LET it == Unwrap(worker[w].item)
                  key == AsI64(it.slot)
                  old == {x \in slot : x.slot = key}
              IN  /\ Cardinality(old) <= 1
                  /\ {x \in slot' : x.slot = key} =
                         {[slot |-> key,
                           parent |-> IF IsSome(it.parent) THEN Some(AsI64(Unwrap(it.parent)))
                                      ELSE IF old = {} THEN None
                                      ELSE (CHOOSE x \in old : TRUE).parent,
                           status |-> it.slot_status]}
                  /\ {x \in slot' : x.slot # key} = {x \in slot : x.slot # key}]_vars

\* The slot was first written with its parent as processed and then,
\* without a parent, as confirmed: the row is confirmed and has the parent.
C36_Witness ==
    /\ slot = {[slot |-> AsI64(HostSlot), parent |-> Some(AsI64(HostSlot - 1)),
                status |-> "confirmed"]}
    /\ \E c \in trace.slot_calls : c.parent = None /\ c.status = "confirmed" /\ c.id \in sent

(***************************************************************************)
(* The Sink under records of the whole range of the host's integers: the   *)
(* host notifies one account at slots and write versions of the lower and  *)
(* of the upper half of u64, and the workers upsert the records made of    *)
(* them in any order.                                                      *)
(***************************************************************************)
HALF_U64 == 2 ^ (U64_BITS - 1)

WideSlots == {3, 5, HALF_U64 + 1}
WideWriteVersions == {1, HALF_U64 + 2}

NextWide ==
    \E w \in Workers, sl \in WideSlots, wv \in WideWriteVersions, ok \in BOOLEAN :
        SinkUpsertAccount(w, DbAccountInfoNew(ReplicaAccountInfo(
                                 [pubkey |-> Pubkey1, owner |-> Pubkey3, lamports |-> sl + wv,
                                  data |-> <<>>], wv), sl), ok)

SpecWide == InitSink /\ [][NextWide]_vars

\* The host's order of two records: by slot, then by write_version, unsigned
HostLeq(a, b) ==
    \/ AsU64(a.slot) < AsU64(b.slot)
    \/ (AsU64(a.slot) = AsU64(b.slot) /\ AsU64(a.write_version) <= AsU64(b.write_version))

InLowerHalf(r) == AsU64(r.slot) < HALF_U64 /\ AsU64(r.write_version) < HALF_U64

TOKEN_MANAGER_PROGRAM_ID ==
    Bs58Decode(<<44, 39, 49, 8, 8, 23, 14, 20, 31, 10, 56, 26, 48, 15, 22, 29, 44, 21, 48, 52,
                 45, 28, 6, 53, 10, 19, 44, 29, 29, 30, 36, 25, 49, 16, 27, 38, 28, 7, 17, 38, 2,
                 17, 20>>)

\* TokenManagerAccountHandler::account_match
TokenManagerAccountMatch(acc) ==
    acc.owner = TOKEN_MANAGER_PROGRAM_ID /\ acc.data.discriminator

\* The row the VALUES list of the statement describes
TokenManagerRow(acc) ==
    LET tm == Unwrap(acc.data.body)
    IN  [id |-> acc.pubkey, state |-> tm.state, amount |-> tm.amount, slot |-> acc.slot]

TokenManagerAccountUpdate_SetsSlot(table, acc) ==
    IF ~TokenManagerAccountMatch(acc) \/ acc.data.body = None
    THEN table
    ELSE LET excluded == TokenManagerRow(acc)
             conflict == {row \in table : row.id = excluded.id}
         IN  IF conflict = {}
             THEN table \cup {excluded}
             ELSE (table \ conflict) \cup
                  {IF row.slot < excluded.slot
                   THEN [row EXCEPT !.state = excluded.state, !.slot = excluded.slot]
                   ELSE row : row \in conflict}

\* TokenManagerAccountHandler::account_update, as the table after the
\* statement it returns: no statement for an account that does not match or
\* does not deserialize; otherwise INSERT ... ON CONFLICT (id) DO UPDATE SET
\* <the assigned columns> WHERE acc.slot < excluded.slot.
TokenManagerAccountUpdate(table, acc) ==
    IF ~TokenManagerAccountMatch(acc) \/ acc.data.body = None
    THEN table
    ELSE LET excluded == TokenManagerRow(acc)
             conflict == {row \in table : row.id = excluded.id}
         IN  IF conflict = {}
             THEN table \cup {excluded}
             ELSE (table \ conflict) \cup
                  {IF row.slot < excluded.slot
                   THEN [row EXCEPT !.state = excluded.state]
                   ELSE row : row \in conflict}

\* The token manager accounts the workers handle: two accounts at three
\* slots, with the state and the amount the account has at the slot, owned
\* by the token manager program or not, with data that carry the
\* discriminator and deserialize, or not.
TokenManagerSlots == {3, 5, 7}

TokenManagerAccounts ==
    {[DbAccountInfo(p, o, 1, sl, 1) EXCEPT
          !.data = [discriminator |-> d,
                    body |-> IF b THEN Some([state |-> sl, amount |-> 10 * sl]) ELSE None]] :
        p \in {Pubkey1, Pubkey2}, o \in {TOKEN_MANAGER_PROGRAM_ID, Pubkey3},
        sl \in TokenManagerSlots, d \in BOOLEAN, b \in BOOLEAN}

\* A worker executes the statement of the handler for an account on its
\* connection.
SinkTokenManagerUpdate(w, acc) ==
    /\ sink_op.n < MaxSinkOps
    /\ token_manager' = TokenManagerAccountUpdate(token_manager, acc)
    /\ applied' = IF TokenManagerAccountMatch(acc) /\ acc.data.body # None
                  THEN applied \cup {acc} ELSE applied
    /\ sink_op' = [n |-> sink_op.n + 1, kind |-> "token_manager_update", worker |-> w,
                   record |-> acc, result |-> "Ok"]
    /\ UNCHANGED <<selVars, sel_query, account, account_audit, store_account_historical_data,
                   pipeVars>>

NextTokenManager ==
    \E w \in Workers, acc \in TokenManagerAccounts : SinkTokenManagerUpdate(w, acc)

SpecTokenManager == InitSink /\ [][NextTokenManager]_vars

TokenManagerOf(table, id) == {row \in table : row.id = id}

\* C38: the conflict update of a token_manager row is guarded by
\* stored.slot < incoming.slot and does not assign slot.  The first update
\* of an id inserts its row; after that the slot (and every column the
\* update does not assign) of the row never changes; an update of a slot
\* greater than the stored slot overwrites the assigned columns, whatever
\* was applied before it, and an update of a slot not greater changes
\* nothing.  Rows of other ids and updates of accounts that do not match or
\* do not deserialize change nothing.
C38_TokenManagerSlotNeverAdvances ==
    [][\A w \in Workers, acc \in TokenManagerAccounts :
          SinkTokenManagerUpdate(w, acc) =>
              LET old == TokenManagerOf(token_manager, acc.pubkey)
                  new == TokenManagerOf(token_manager', acc.pubkey)
                  handled == TokenManagerAccountMatch(acc) /\ acc.data.body # None
              IN  /\ token_manager' \ new = token_manager \ old
                  /\ ~handled => new = old
                  /\ (handled /\ old = {}) => new = {TokenManagerRow(acc)}
                  /\ (handled /\ old # {}) =>
                         \E row \in old :
                             /\ old = {row}
                             /\ new = {IF row.slot < acc.slot
                                       THEN [id |-> row.id, state |-> Unwrap(acc.data.body).state,
                                             amount |-> row.amount, slot |-> row.slot]
                                       ELSE row}]_vars

\* The updates of slots 3, 7 and 5 of one token manager were applied in
\* this order: the row has the slot of the first, and the state of the
\* update of slot 5 though the update of slot 7 was applied before it.
C38_Witness ==
    /\ sink_op.kind = "token_manager_update"
    /\ sink_op.n = 3
    /\ sink_op.record.slot = 5
    /\ {r.slot : r \in {a \in applied : a.pubkey = Pubkey1}} = {3, 5, 7}
    /\ token_manager = {[id |-> Pubkey1, state |-> 5, amount |-> 30, slot |-> 3]}

(***************************************************************************)
(* The wildcards of a mentions list, checked under SpecSelector            *)
(***************************************************************************)
\* The mentions of the transaction_selector section of the config file
ConfiguredMentions == Range(Unwrap(config.transaction_selector).mentions)

\* C39: a TransactionSelector built from a mentions list with "all_votes"
\* and neither "*" nor "all" keeps no address and selects exactly the vote
\* transactions, whatever addresses the list names next to "all_votes" and
\* whatever the transaction mentions; a selector built from a list with "*"
\* or "all" keeps no address and selects every transaction.
C39_AllVotesDropsAddresses ==
    IsSome(config.transaction_selector) =>
        LET sel == Unwrap(transaction_selector)
            all == ConfiguredMentions \cap {Star, All} # {}
        IN  /\ (~all /\ AllVotes \in ConfiguredMentions) =>
                   /\ sel.mentioned_addresses = {}
                   /\ sel_query.kind = "transaction" => (sel_query.result <=> sel_query.is_vote)
            /\ all =>
                   /\ sel.mentioned_addresses = {}
                   /\ sel_query.kind = "transaction" => sel_query.result

\* The list names Key1 next to "all_votes", and a non-vote transaction that
\* mentions the Pubkey of Key1 has been refused.
C39_Witness ==
    /\ IsSome(config.transaction_selector)
    /\ ConfiguredMentions = {AllVotes, Key1}
    /\ sel_query.kind = "transaction"
    /\ ~sel_query.is_vote
    /\ Pubkey1 \in sel_query.mentioned
    /\ ~sel_query.result
====
